---------------------------- MODULE Spec2Model ----------------------------
\* Model of src/Bilanco-tablosu.py: the chart of accounts (SECTION_FIELDS),
\* the aggregation functions (sum_*), the validation engine (validate),
\* the spreadsheet writer and reconciler (save_to_excel, load_from_excel)
\* and the save paths of the adapters (cli_main, do_save_*).
\* Conventions of the model:
\* - A text (a Python str) is a sequence of characters, each character a
\* one-element string.  The Turkish letters outside ASCII are written
\* as named characters ("i_dotless", "s_cedilla", ...).  Message
\* literals of the program are written in their ASCII spelling.
\* - An amount (a Python float) is a fixed-point integer counting units
\* of 10^-Decimals (hundredths), the resolution of format_tl; the
\* arithmetic of the model is exact, binary rounding is not modelled.
\* - A value of the flat mapping is a record [t, n, s]: t = "num" with
\* the amount n, or t = "str" with the text s.
EXTENDS Integers, Sequences, FiniteSets, TLC

VARIABLES
  d,            \* the flat entry mapping handed to the core
  d_items,      \* the keys of d in insertion order, the order of d.items()
  op,           \* the last operation applied
  errors,       \* the list returned by validate(d)
  totals,       \* the results of the five sum_* functions
  workbook,     \* the spreadsheet file: the workbook last saved
  loaded,       \* the mapping returned by load_from_excel
  document,     \* the document the last step built or loaded
  status,       \* where the program is: main, the form's mainloop, returned
  vars_map,     \* the texts of the form's fields
  display,      \* the two total labels of the form
  json_files,   \* the JSON files written, by file name
  mongo,        \* the documents of the database collection
  written,      \* the stores the last step wrote to
  output,       \* what the last step showed or printed
  calls         \* the calls the last step made to the stores, in order

vars == <<d, d_items, op, errors, totals, workbook, loaded, document, status,
          vars_map, display, json_files, mongo, written, output, calls>>

\* the variables of the adapters
adapterVars == <<status, vars_map, display, json_files, mongo, written, output,
                 calls>>

----------------------------------------------------------------------------
\* Schema Registry: SECTION_FIELDS, src lines 573-685.  A field is
\* (label, key); the key is kept as key \o suffix so that
\* key.endswith("_dummy") can be decided.

SECTION_FIELDS_AKTIF ==
  <<
    [ group |-> <<"D","o_diaeresis","n","e","n"," ","V","a","r","l","i_dotless","k","l","a","r">>,
      fields |-> <<
        [label |-> <<"N","a","k","i","t"," ","v","e"," ","N","a","k","i","t"," ","B","e","n","z","e","r","l","e","r","i">>,
         key |-> "nakitVeNakitBenzerleri", suffix |-> ""],
        [label |-> <<"G","a","y","r","i","m","e","n","k","u","l"," ","P","r","o","j","e","l","e","r","i"," ","K","a","p","s","a","m","i_dotless","n","d","a"," ","A","c_cedilla","i_dotless","l","a","n"," ","N","a","k","i","t"," ","H","e","s","a","p","l","a","r","i_dotless">>,
         key |-> "gayrimenkulProjeleriNakitHesaplari", suffix |-> ""],
        [label |-> <<"F","i","n","a","n","s","a","l"," ","Y","a","t","i_dotless","r","i_dotless","m","l","a","r">>,
         key |-> "finansalYatirimlar", suffix |-> ""],
        [label |-> <<"T","e","m","i","n","a","t","a"," ","V","e","r","i","l","e","n"," ","F","i","n","a","n","s","a","l"," ","V","a","r","l","i_dotless","k","l","a","r">>,
         key |-> "teminataVerilenFinansalVarliklar", suffix |-> ""],
        [label |-> <<"T","i","c","a","r","i"," ","A","l","a","c","a","k","l","a","r">>,
         key |-> "ticariAlacaklarDonen", suffix |-> ""],
        [label |-> <<"F","i","n","a","n","s"," ","S","e","k","t","o_diaeresis","r","u_diaeresis"," ","F","a","a","l","i","y","e","t","l","e","r","i","n","d","e","n"," ","A","l","a","c","a","k","l","a","r">>,
         key |-> "finansSektoruFaaliyetlerindenAlacaklarDonen", suffix |-> ""],
        [label |-> <<"T","u_diaeresis","r","k","i","y","e"," ","C","u","m","h","u","r","i","y","e","t"," ","M","e","r","k","e","z"," ","B","a","n","k","a","s","i_dotless"," ","H","e","s","a","b","i_dotless">>,
         key |-> "tcmbHesabi", suffix |-> ""],
        [label |-> <<"D","i","g_breve","e","r"," ","A","l","a","c","a","k","l","a","r">>,
         key |-> "digerAlacaklarDonen", suffix |-> ""],
        [label |-> <<"M","u_diaeresis","s_cedilla","t","e","r","i"," ","S","o_diaeresis","z","l","e","s_cedilla","m","e","l","e","r","i","n","d","e","n"," ","D","o","g_breve","a","n"," ","V","a","r","l","i_dotless","k","l","a","r">>,
         key |-> "musteriSozlesmelerindenDoganVarliklarDonen", suffix |-> ""],
        [label |-> <<"I_dotted","m","t","i","y","a","z"," ","S","o_diaeresis","z","l","e","s_cedilla","m","e","l","e","r","i","n","e"," ","I_dotted","l","i","s_cedilla","k","i","n"," ","F","i","n","a","n","s","a","l"," ","V","a","r","l","i_dotless","k","l","a","r">>,
         key |-> "imtiyazSozlesmelerineIliskinFinansalVarliklarDonen", suffix |-> ""],
        [label |-> <<"T","u_diaeresis","r","e","v"," ","A","r","a","c_cedilla","l","a","r">>,
         key |-> "turevAraclarDonen", suffix |-> ""],
        [label |-> <<"S","t","o","k","l","a","r">>,
         key |-> "stoklar", suffix |-> ""],
        [label |-> <<"P","r","o","j","e"," ","H","a","l","i","n","d","e","k","i"," ","S","t","o","k","l","a","r">>,
         key |-> "projeHalindekiStoklar", suffix |-> ""],
        [label |-> <<"C","a","n","l","i_dotless"," ","V","a","r","l","i_dotless","k","l","a","r">>,
         key |-> "canliVarliklarDonen", suffix |-> ""],
        [label |-> <<"P","e","s_cedilla","i","n"," ","O_diaeresis","d","e","n","m","i","s_cedilla"," ","G","i","d","e","r","l","e","r">>,
         key |-> "pesinOdenmisGiderlerDonen", suffix |-> ""],
        [label |-> <<"E","r","t","e","l","e","n","m","i","s_cedilla"," ","S","i","g","o","r","t","a","c","i_dotless","l","i_dotless","k"," ","U_diaeresis","r","e","t","i","m"," ","G","i","d","e","r","l","e","r","i">>,
         key |-> "ertelenmisSigortacilikUretimGiderleri", suffix |-> ""],
        [label |-> <<"C","a","r","i"," ","D","o_diaeresis","n","e","m"," ","V","e","r","g","i","s","i","y","l","e"," ","I_dotted","l","g","i","l","i"," ","V","a","r","l","i_dotless","k","l","a","r">>,
         key |-> "cariDonemVergisiyleIlgiliVarliklarDonen", suffix |-> ""],
        [label |-> <<"N","a","k","d","i"," ","D","i_dotless","s_cedilla","i_dotless"," ","S","e","r","b","e","s","t"," ","K","u","l","l","a","n","i_dotless","l","a","b","i","l","i","r"," ","T","e","m","i","n","a","t","l","a","r">>,
         key |-> "nakdiDisiSerbestKullanilabilirTeminatlarDonen", suffix |-> ""],
        [label |-> <<"D","i","g_breve","e","r"," ","D","o_diaeresis","n","e","n"," ","V","a","r","l","i_dotless","k","l","a","r">>,
         key |-> "digerDonenVarliklar", suffix |-> ""],
        [label |-> <<"S","a","t","i_dotless","s_cedilla"," ","A","m","a","c","i_dotless","y","l","a"," ","E","l","d","e"," ","T","u","t","u","l","a","n"," ","D","u","r","a","n"," ","V","a","r","l","i_dotless","k","l","a","r">>,
         key |-> "satisAmaciylaEldeTutulanDuranVarliklar", suffix |-> ""],
        [label |-> <<"O","r","t","a","k","l","a","r","a"," ","D","a","g_breve","i_dotless","t","i_dotless","l","m","a","k"," ","U_diaeresis","z","e","r","e"," ","E","l","d","e"," ","T","u","t","u","l","a","n"," ","D","u","r","a","n"," ","V","a","r","l","i_dotless","k","l","a","r">>,
         key |-> "ortaklaraDagitilmakUzereEldeTutulanDuranVarliklar", suffix |-> ""],
        [label |-> <<"T","o","p","l","a","m"," ","D","o_diaeresis","n","e","n"," ","V","a","r","l","i_dotless","k","l","a","r">>,
         key |-> "toplamDonenVarliklar", suffix |-> "_dummy"]
      >> ],
    [ group |-> <<"D","u","r","a","n"," ","V","a","r","l","i_dotless","k","l","a","r">>,
      fields |-> <<
        [label |-> <<"F","i","n","a","n","s","a","l"," ","Y","a","t","i_dotless","r","i_dotless","m","l","a","r">>,
         key |-> "finansalYatirimlarDuran", suffix |-> ""],
        [label |-> <<"I_dotted","s_cedilla","t","i","r","a","k","l","e","r",","," ","I_dotted","s_cedilla"," ","O","r","t","a","k","l","i_dotless","k","l","a","r","i_dotless"," ","v","e"," ","B","a","g_breve","l","i_dotless"," ","O","r","t","a","k","l","i_dotless","k","l","a","r","d","a","k","i"," ","Y","a","t","i_dotless","r","i_dotless","m","l","a","r">>,
         key |-> "istirakIsOrtaklikBagliOrtaklikYatirimlari", suffix |-> ""],
        [label |-> <<"T","i","c","a","r","i"," ","A","l","a","c","a","k","l","a","r">>,
         key |-> "ticariAlacaklar", suffix |-> ""],
        [label |-> <<"F","i","n","a","n","s"," ","S","e","k","t","o_diaeresis","r","u_diaeresis"," ","F","a","a","l","i","y","e","t","l","e","r","i","n","d","e","n"," ","A","l","a","c","a","k","l","a","r">>,
         key |-> "finansSektoruFaaliyetlerindenAlacaklarDuran", suffix |-> ""],
        [label |-> <<"D","i","g_breve","e","r"," ","A","l","a","c","a","k","l","a","r">>,
         key |-> "digerAlacaklarDuran", suffix |-> ""],
        [label |-> <<"M","u_diaeresis","s_cedilla","t","e","r","i"," ","S","o_diaeresis","z","l","e","s_cedilla","m","e","l","e","r","i","n","d","e","n"," ","D","o","g_breve","a","n"," ","V","a","r","l","i_dotless","k","l","a","r">>,
         key |-> "musteriSozlesmelerindenDoganVarliklarDuran", suffix |-> ""],
        [label |-> <<"I_dotted","m","t","i","y","a","z"," ","S","o_diaeresis","z","l","e","s_cedilla","m","e","l","e","r","i","n","e"," ","I_dotted","l","i","s_cedilla","k","i","n"," ","F","i","n","a","n","s","a","l"," ","V","a","r","l","i_dotless","k","l","a","r">>,
         key |-> "imtiyazSozlesmelerineIliskinFinansalVarliklarDuran", suffix |-> ""],
        [label |-> <<"T","u_diaeresis","r","e","v"," ","A","r","a","c_cedilla","l","a","r">>,
         key |-> "turevAraclarDuran", suffix |-> ""],
        [label |-> <<"S","t","o","k","l","a","r">>,
         key |-> "stoklarDuran", suffix |-> ""],
        [label |-> <<"O_diaeresis","z","k","a","y","n","a","k"," ","Y","o_diaeresis","n","t","e","m","i","y","l","e"," ","D","e","g_breve","e","r","l","e","n","e","n"," ","Y","a","t","i_dotless","r","i_dotless","m","l","a","r">>,
         key |-> "ozkaynakYontemiyleDegerlenenYatirimlar", suffix |-> ""],
        [label |-> <<"C","a","n","l","i_dotless"," ","V","a","r","l","i_dotless","k","l","a","r">>,
         key |-> "canliVarliklarDuran", suffix |-> ""],
        [label |-> <<"Y","a","t","i_dotless","r","i_dotless","m"," ","A","m","a","c_cedilla","l","i_dotless"," ","G","a","y","r","i","m","e","n","k","u","l","l","e","r">>,
         key |-> "yatirimAmacliGayrimenkuller", suffix |-> ""],
        [label |-> <<"P","r","o","j","e"," ","H","a","l","i","n","d","e","k","i"," ","Y","a","t","i_dotless","r","i_dotless","m"," ","A","m","a","c_cedilla","l","i_dotless"," ","G","a","y","r","i","m","e","n","k","u","l","l","e","r">>,
         key |-> "projeHalindekiYatirimAmacliGayrimenkuller", suffix |-> ""],
        [label |-> <<"M","a","d","d","i"," ","D","u","r","a","n"," ","V","a","r","l","i_dotless","k","l","a","r">>,
         key |-> "maddiDuranVarliklar", suffix |-> ""],
        [label |-> <<"K","u","l","l","a","n","i_dotless","m"," ","H","a","k","k","i_dotless"," ","V","a","r","l","i_dotless","k","l","a","r","i_dotless">>,
         key |-> "kullanimHakkiVarliklari", suffix |-> ""],
        [label |-> <<"M","a","d","d","i"," ","O","l","m","a","y","a","n"," ","D","u","r","a","n"," ","V","a","r","l","i_dotless","k","l","a","r">>,
         key |-> "maddiOlmayanDuranVarliklar", suffix |-> ""],
        [label |-> <<"P","e","s_cedilla","i","n"," ","O_diaeresis","d","e","n","m","i","s_cedilla"," ","G","i","d","e","r","l","e","r">>,
         key |-> "pesinOdenmisGiderlerDuran", suffix |-> ""],
        [label |-> <<"E","r","t","e","l","e","n","m","i","s_cedilla"," ","V","e","r","g","i"," ","V","a","r","l","i_dotless","g_breve","i_dotless">>,
         key |-> "ertelenmisVergiVarligiDuran", suffix |-> ""],
        [label |-> <<"C","a","r","i"," ","D","o_diaeresis","n","e","m"," ","V","e","r","g","i","s","i","y","l","e"," ","I_dotted","l","g","i","l","i"," ","D","u","r","a","n"," ","V","a","r","l","i_dotless","k","l","a","r">>,
         key |-> "cariDonemVergisiyleIlgiliDuranVarliklar", suffix |-> ""],
        [label |-> <<"N","a","k","d","i"," ","D","i_dotless","s_cedilla","i_dotless"," ","S","e","r","b","e","s","t"," ","K","u","l","l","a","n","i_dotless","l","a","b","i","l","i","r"," ","T","e","m","i","n","a","t","l","a","r">>,
         key |-> "nakdiDisiSerbestKullanilabilirTeminatlarDuran", suffix |-> ""],
        [label |-> <<"D","i","g_breve","e","r"," ","D","u","r","a","n"," ","V","a","r","l","i_dotless","k","l","a","r">>,
         key |-> "digerDuranVarliklar", suffix |-> ""],
        [label |-> <<"T","o","p","l","a","m"," ","D","u","r","a","n"," ","V","a","r","l","i_dotless","k","l","a","r">>,
         key |-> "toplamDuranVarliklar", suffix |-> "_dummy"]
      >> ]
  >>

SECTION_FIELDS_PASIF ==
  <<
    [ group |-> <<"K","i_dotless","s","a"," ","V","a","d","e","l","i"," ","Y","u_diaeresis","k","u_diaeresis","m","l","u_diaeresis","l","u_diaeresis","k","l","e","r">>,
      fields |-> <<
        [label |-> <<"F","i","n","a","n","s","a","l"," ","B","o","r","c_cedilla","l","a","r">>,
         key |-> "finansalBorclarKV", suffix |-> ""],
        [label |-> <<"D","i","g_breve","e","r"," ","F","i","n","a","n","s","a","l"," ","Y","u_diaeresis","k","u_diaeresis","m","l","u_diaeresis","l","u_diaeresis","k","l","e","r">>,
         key |-> "digerFinansalYukumluluklerKV", suffix |-> ""],
        [label |-> <<"T","i","c","a","r","i"," ","B","o","r","c_cedilla","l","a","r">>,
         key |-> "ticariBorclarKV", suffix |-> ""],
        [label |-> <<"F","i","n","a","n","s"," ","S","e","k","t","o_diaeresis","r","u_diaeresis"," ","F","a","a","l","i","y","e","t","l","e","r","i","n","d","e","n"," ","B","o","r","c_cedilla","l","a","r">>,
         key |-> "finansSektoruFaaliyetlerindenBorclarKV", suffix |-> ""],
        [label |-> <<"C_cedilla","a","l","i_dotless","s_cedilla","a","n","l","a","r","a"," ","S","a","g_breve","l","a","n","a","n"," ","F","a","y","d","a","l","a","r"," ","K","a","p","s","a","m","i_dotless","n","d","a"," ","B","o","r","c_cedilla","l","a","r">>,
         key |-> "calisanlaraSaglananFaydalarBorclarKV", suffix |-> ""],
        [label |-> <<"D","i","g_breve","e","r"," ","B","o","r","c_cedilla","l","a","r">>,
         key |-> "digerBorclarKV", suffix |-> ""],
        [label |-> <<"M","u_diaeresis","s_cedilla","t","e","r","i"," ","S","o_diaeresis","z","l","e","s_cedilla","m","e","l","e","r","i","n","d","e","n"," ","D","o","g_breve","a","n"," ","Y","u_diaeresis","k","u_diaeresis","m","l","u_diaeresis","l","u_diaeresis","k","l","e","r">>,
         key |-> "musteriSozlesmelerindenDoganYukumluluklerKV", suffix |-> ""],
        [label |-> <<"O_diaeresis","z","k","a","y","n","a","k"," ","Y","o_diaeresis","n","t","e","m","i","y","l","e"," ","D","e","g_breve","e","r","l","e","n","e","n"," ","Y","a","t","i_dotless","r","i_dotless","m","l","a","r","d","a","n"," ","Y","u_diaeresis","k","u_diaeresis","m","l","u_diaeresis","l","u_diaeresis","k","l","e","r">>,
         key |-> "ozkaynakYontemiyleDegerlenenYatirimlardanYukumluluklerKV", suffix |-> ""],
        [label |-> <<"T","u_diaeresis","r","e","v"," ","A","r","a","c_cedilla","l","a","r">>,
         key |-> "turevAraclarKV", suffix |-> ""],
        [label |-> <<"D","e","v","l","e","t"," ","T","e","s_cedilla","v","i","k"," ","v","e"," ","Y","a","r","d","i_dotless","m","l","a","r","i_dotless">>,
         key |-> "devletTesvikYardimKV", suffix |-> ""],
        [label |-> <<"E","r","t","e","l","e","n","m","i","s_cedilla"," ","G","e","l","i","r","l","e","r">>,
         key |-> "ertelenmisGelirlerKV", suffix |-> ""],
        [label |-> <<"D","o_diaeresis","n","e","m"," ","K","a","r","i_dotless"," ","V","e","r","g","i"," ","Y","u_diaeresis","k","u_diaeresis","m","l","u_diaeresis","l","u_diaeresis","g_breve","u_diaeresis">>,
         key |-> "donemKariVergiYukumluluguKV", suffix |-> ""],
        [label |-> <<"K","i_dotless","s","a"," ","V","a","d","e","l","i"," ","K","a","r","s_cedilla","i_dotless","l","i_dotless","k","l","a","r">>,
         key |-> "kisaVadeliKarsiliklar", suffix |-> ""],
        [label |-> <<"D","i","g_breve","e","r"," ","K","i_dotless","s","a"," ","V","a","d","e","l","i"," ","Y","u_diaeresis","k","u_diaeresis","m","l","u_diaeresis","l","u_diaeresis","k","l","e","r">>,
         key |-> "digerKisaVadeliYukumlulukler", suffix |-> ""],
        [label |-> <<"S","a","t","i_dotless","s_cedilla"," ","A","m","a","c_cedilla","l","i_dotless"," ","S","i_dotless","n","i_dotless","f","l","a","n","d","i_dotless","r","i_dotless","l","a","n"," ","V","a","r","l","i_dotless","k"," ","G","r","u","p","l","a","r","i_dotless","n","a"," ","I_dotted","l","i","s_cedilla","k","i","n"," ","Y","u_diaeresis","k","u_diaeresis","m","l","u_diaeresis","l","u_diaeresis","k","l","e","r">>,
         key |-> "satisAmacliSiniflandirilanVarlikGruplarinaIliskinYukumlulukler", suffix |-> ""],
        [label |-> <<"O","r","t","a","k","l","a","r","a"," ","D","a","g_breve","i_dotless","t","i_dotless","l","m","a","k"," ","U_diaeresis","z","e","r","e"," ","E","l","d","e"," ","T","u","t","u","l","a","n"," ","V","a","r","l","i_dotless","k"," ","G","r","u","p","l","a","r","i_dotless","n","a"," ","I_dotted","l","i","s_cedilla","k","i","n"," ","Y","u_diaeresis","k","u_diaeresis","m","l","u_diaeresis","l","u_diaeresis","k","l","e","r">>,
         key |-> "ortaklaraDagitilmakUzereEldeTutulanVarlikGruplarinaIliskinYukumlulukler", suffix |-> ""],
        [label |-> <<"T","o","p","l","a","m"," ","K","i_dotless","s","a"," ","V","a","d","e","l","i"," ","Y","u_diaeresis","k","u_diaeresis","m","l","u_diaeresis","l","u_diaeresis","k","l","e","r">>,
         key |-> "toplamKVY", suffix |-> "_dummy"]
      >> ],
    [ group |-> <<"U","z","u","n"," ","V","a","d","e","l","i"," ","Y","u_diaeresis","k","u_diaeresis","m","l","u_diaeresis","l","u_diaeresis","k","l","e","r">>,
      fields |-> <<
        [label |-> <<"F","i","n","a","n","s","a","l"," ","B","o","r","c_cedilla","l","a","r">>,
         key |-> "finansalBorclarUV", suffix |-> ""],
        [label |-> <<"D","i","g_breve","e","r"," ","F","i","n","a","n","s","a","l"," ","Y","u_diaeresis","k","u_diaeresis","m","l","u_diaeresis","l","u_diaeresis","k","l","e","r">>,
         key |-> "digerFinansalYukumluluklerUV", suffix |-> ""],
        [label |-> <<"T","i","c","a","r","i"," ","B","o","r","c_cedilla","l","a","r">>,
         key |-> "ticariBorclarUV", suffix |-> ""],
        [label |-> <<"F","i","n","a","n","s"," ","S","e","k","t","o_diaeresis","r","u_diaeresis"," ","F","a","a","l","i","y","e","t","l","e","r","i","n","d","e","n"," ","B","o","r","c_cedilla","l","a","r">>,
         key |-> "finansSektoruFaaliyetlerindenBorclarUV", suffix |-> ""],
        [label |-> <<"C_cedilla","a","l","i_dotless","s_cedilla","a","n","l","a","r","a"," ","S","a","g_breve","l","a","n","a","n"," ","F","a","y","d","a","l","a","r"," ","K","a","p","s","a","m","i_dotless","n","d","a"," ","B","o","r","c_cedilla","l","a","r">>,
         key |-> "calisanlaraSaglananFaydalarBorclarUV", suffix |-> ""],
        [label |-> <<"D","i","g_breve","e","r"," ","B","o","r","c_cedilla","l","a","r">>,
         key |-> "digerBorclarUV", suffix |-> ""],
        [label |-> <<"M","u_diaeresis","s_cedilla","t","e","r","i"," ","S","o_diaeresis","z","l","e","s_cedilla","m","e","l","e","r","i","n","d","e","n"," ","D","o","g_breve","a","n"," ","Y","u_diaeresis","k","u_diaeresis","m","l","u_diaeresis","l","u_diaeresis","k","l","e","r">>,
         key |-> "musteriSozlesmelerindenDoganYukumluluklerUV", suffix |-> ""],
        [label |-> <<"O_diaeresis","z","k","a","y","n","a","k"," ","Y","o_diaeresis","n","t","e","m","i","y","l","e"," ","D","e","g_breve","e","r","l","e","n","e","n"," ","Y","a","t","i_dotless","r","i_dotless","m","l","a","r","d","a","n"," ","Y","u_diaeresis","k","u_diaeresis","m","l","u_diaeresis","l","u_diaeresis","k","l","e","r">>,
         key |-> "ozkaynakYontemiyleDegerlenenYatirimlardanYukumluluklerUV", suffix |-> ""],
        [label |-> <<"T","u_diaeresis","r","e","v"," ","A","r","a","c_cedilla","l","a","r">>,
         key |-> "turevAraclarUV", suffix |-> ""],
        [label |-> <<"D","e","v","l","e","t"," ","T","e","s_cedilla","v","i","k"," ","v","e"," ","Y","a","r","d","i_dotless","m","l","a","r","i_dotless">>,
         key |-> "devletTesvikYardimUV", suffix |-> ""],
        [label |-> <<"E","r","t","e","l","e","n","m","i","s_cedilla"," ","G","e","l","i","r","l","e","r">>,
         key |-> "ertelenmisGelirlerUV", suffix |-> ""],
        [label |-> <<"C","a","r","i"," ","D","o_diaeresis","n","e","m"," ","V","e","r","g","i","s","i","y","l","e"," ","I_dotted","l","g","i","l","i"," ","B","o","r","c_cedilla","l","a","r">>,
         key |-> "cariDonemVergisiyleIlgiliBorclarUV", suffix |-> ""],
        [label |-> <<"E","r","t","e","l","e","n","m","i","s_cedilla"," ","V","e","r","g","i"," ","Y","u_diaeresis","k","u_diaeresis","m","l","u_diaeresis","l","u_diaeresis","g_breve","u_diaeresis">>,
         key |-> "ertelenmisVergiYukumlulugu", suffix |-> ""],
        [label |-> <<"D","i","g_breve","e","r"," ","U","z","u","n"," ","V","a","d","e","l","i"," ","Y","u_diaeresis","k","u_diaeresis","m","l","u_diaeresis","l","u_diaeresis","k","l","e","r">>,
         key |-> "digerUzunVadeliYukumlulukler", suffix |-> ""],
        [label |-> <<"T","o","p","l","a","m"," ","U","z","u","n"," ","V","a","d","e","l","i"," ","Y","u_diaeresis","k","u_diaeresis","m","l","u_diaeresis","l","u_diaeresis","k","l","e","r">>,
         key |-> "toplamUVY", suffix |-> "_dummy"]
      >> ],
    [ group |-> <<"O_diaeresis","z","k","a","y","n","a","k","l","a","r">>,
      fields |-> <<
        [label |-> <<"A","n","a"," ","O","r","t","a","k","l","i_dotless","g_breve","a"," ","A","i","t"," ","O_diaeresis","z","k","a","y","n","a","k","l","a","r">>,
         key |-> "anaOrtakligaAitOzkaynaklar", suffix |-> ""],
        [label |-> <<"O_diaeresis","d","e","n","m","i","s_cedilla"," ","S","e","r","m","a","y","e">>,
         key |-> "odenmisSermaye", suffix |-> ""],
        [label |-> <<"S","e","r","m","a","y","e"," ","D","u_diaeresis","z","e","l","t","m","e"," ","F","a","r","k","l","a","r","i_dotless">>,
         key |-> "sermayeDuzeltmeFarklari", suffix |-> ""],
        [label |-> <<"B","i","r","l","e","s_cedilla","m","e"," ","D","e","n","g","e","l","e","s_cedilla","t","i","r","m","e"," ","H","e","s","a","b","i_dotless">>,
         key |-> "birlesmeDengeletirmeHesabi", suffix |-> ""],
        [label |-> <<"P","a","y"," ","S","a","h","i","p","l","e","r","i","n","i","n"," ","I_dotted","l","a","v","e"," ","S","e","r","m","a","y","e"," ","K","a","t","k","i_dotless","l","a","r","i_dotless">>,
         key |-> "paySahipleriIlaveSermayeKatkilari", suffix |-> ""],
        [label |-> <<"S","e","r","m","a","y","e"," ","A","v","a","n","s","i_dotless">>,
         key |-> "sermayeAvansi", suffix |-> ""],
        [label |-> <<"G","e","r","i"," ","A","l","i_dotless","n","m","i_dotless","s_cedilla"," ","P","a","y","l","a","r"," ","(","-",")">>,
         key |-> "geriAlinmisPaylar", suffix |-> ""],
        [label |-> <<"K","a","r","s_cedilla","i_dotless","l","i_dotless","k","l","i_dotless"," ","I_dotted","s_cedilla","t","i","r","a","k"," ","S","e","r","m","a","y","e"," ","D","u_diaeresis","z","e","l","t","m","e","s","i"," ","(","-",")">>,
         key |-> "karsilikliIstirakSermayeDuzeltmesi", suffix |-> ""],
        [label |-> <<"P","a","y","l","a","r","a"," ","I_dotted","l","i","s_cedilla","k","i","n"," ","P","r","i","m","l","e","r"," ","(","i","s","k","o","n","t","o","l","a","r",")">>,
         key |-> "paylaraIliskinPrimlerIskontolar", suffix |-> ""],
        [label |-> <<"O","r","t","a","k"," ","K","o","n","t","r","o","l","e"," ","T","a","b","i"," ","T","e","s_cedilla","e","b","b","u_diaeresis","s"," ","v","e","y","a"," ","I_dotted","s_cedilla","l","e","t","m","e","l","e","r","i"," ","I_dotted","c_cedilla","e","r","e","n"," ","B","i","r","l","e","s_cedilla","m","e","l","e","r","i","n"," ","E","t","k","i","s","i">>,
         key |-> "ortakKontroleTabiBirlesmeEtkisi", suffix |-> ""],
        [label |-> <<"P","a","y"," ","B","a","z","l","i_dotless"," ","O_diaeresis","d","e","m","e","l","e","r"," ","(","-",")">>,
         key |-> "payBazliOdemeler", suffix |-> ""],
        [label |-> <<"K","a","r"," ","v","e","y","a"," ","Z","a","r","a","r","d","a"," ","Y","e","n","i","d","e","n"," ","S","i_dotless","n","i_dotless","f","l","a","n","d","i_dotless","r","i_dotless","l","m","a","y","a","c","a","k"," ","B","i","r","i","k","m","i","s_cedilla"," ","D","i","g_breve","e","r"," ","K","a","p","s","a","m","l","i_dotless"," ","G","e","l","i","r","l","e","r"," ","(","G","i","d","e","r","l","e","r",")">>,
         key |-> "yenidenSiniflandirilmayacakBirikmisDigerKapsamliGelirGider", suffix |-> ""],
        [label |-> <<"K","a","r"," ","v","e","y","a"," ","Z","a","r","a","r","d","a"," ","Y","e","n","i","d","e","n"," ","S","i_dotless","n","i_dotless","f","l","a","n","d","i_dotless","r","i_dotless","l","a","c","a","k"," ","B","i","r","i","k","m","i","s_cedilla"," ","D","i","g_breve","e","r"," ","K","a","p","s","a","m","l","i_dotless"," ","G","e","l","i","r","l","e","r"," ","(","G","i","d","e","r","l","e","r",")">>,
         key |-> "yenidenSiniflandirilacakBirikmisDigerKapsamliGelirGider", suffix |-> ""],
        [label |-> <<"K","a","r","d","a","n"," ","A","y","r","i_dotless","l","a","n"," ","K","i_dotless","s","i_dotless","t","l","a","n","m","i_dotless","s_cedilla"," ","Y","e","d","e","k","l","e","r">>,
         key |-> "kardanAyrilanKisitlanmisYedekler", suffix |-> ""],
        [label |-> <<"D","i","g_breve","e","r"," ","Y","e","d","e","k","l","e","r">>,
         key |-> "digerYedekler", suffix |-> ""],
        [label |-> <<"G","e","c_cedilla","m","i","s_cedilla"," ","Y","i_dotless","l","l","a","r"," ","K","a","r","/","Z","a","r","a","r","l","a","r","i_dotless">>,
         key |-> "gecmisYillarKarZarari", suffix |-> ""],
        [label |-> <<"D","o_diaeresis","n","e","m"," ","N","e","t"," ","K","a","r","i_dotless">>,
         key |-> "donemKariZarari", suffix |-> ""],
        [label |-> <<"A","z","i_dotless","n","l","i_dotless","k"," ","P","a","y","l","a","r","i_dotless">>,
         key |-> "kontrolGucuOlmayanPaylar", suffix |-> ""],
        [label |-> <<"T","o","p","l","a","m"," ","O_diaeresis","z","k","a","y","n","a","k","l","a","r">>,
         key |-> "ozkaynaklarToplam", suffix |-> "_dummy"],
        [label |-> <<"T","o","p","l","a","m"," ","K","a","y","n","a","k","l","a","r">>,
         key |-> "toplamKaynaklar", suffix |-> "_dummy"],
        [label |-> <<"H","e","d","g","e"," ","D","a","h","i","l"," ","N","e","t"," ","Y","a","b","a","n","c","i_dotless"," ","P","a","r","a"," ","P","o","z","i","s","y","o","n","u">>,
         key |-> "hedgeDahilNetYabanciParaPozisyonu", suffix |-> ""]
      >> ]
  >>

SECTION_FIELDS == [AKTIF |-> SECTION_FIELDS_AKTIF, PASIF |-> SECTION_FIELDS_PASIF]

\* the key string of a schema field
FieldKey(f) == f.key \o f.suffix

\* key.endswith("_dummy"): the subtotal-marker test
EndsWithDummy(f) == f.suffix = "_dummy"

\* groups[group]: the fields listed under the group's name
FieldsOfGroup(groups, group) ==
  groups[CHOOSE j \in 1..Len(groups) : groups[j].group = group].fields

\* SECTION_FIELDS[side][group]
GroupFields(side, group) == FieldsOfGroup(SECTION_FIELDS[side], group)

RECURSIVE NonDummyKeys(_)
\* [k for _, k in fields if not k.endswith("_dummy")]
NonDummyKeys(fields) ==
  IF fields = <<>> THEN <<>>
  ELSE (IF EndsWithDummy(Head(fields)) THEN <<>> ELSE <<FieldKey(Head(fields))>>)
       \o NonDummyKeys(Tail(fields))

DONEN_KEYS ==
  NonDummyKeys(GroupFields("AKTIF",
    <<"D","o_diaeresis","n","e","n"," ","V","a","r","l","i_dotless","k","l","a","r">>))
DURAN_KEYS ==
  NonDummyKeys(GroupFields("AKTIF",
    <<"D","u","r","a","n"," ","V","a","r","l","i_dotless","k","l","a","r">>))
KV_KEYS ==
  NonDummyKeys(GroupFields("PASIF",
    <<"K","i_dotless","s","a"," ","V","a","d","e","l","i"," ","Y","u_diaeresis","k",
      "u_diaeresis","m","l","u_diaeresis","l","u_diaeresis","k","l","e","r">>))
UV_KEYS ==
  NonDummyKeys(GroupFields("PASIF",
    <<"U","z","u","n"," ","V","a","d","e","l","i"," ","Y","u_diaeresis","k",
      "u_diaeresis","m","l","u_diaeresis","l","u_diaeresis","k","l","e","r">>))
OZ_KEYS ==
  NonDummyKeys(GroupFields("PASIF",
    <<"O_diaeresis","z","k","a","y","n","a","k","l","a","r">>))

----------------------------------------------------------------------------
\* Values, texts and the conversions of Python the program relies on.

\* two decimals: the ".2f" of format_tl; amounts count units of 10^-Decimals
Decimals == 2
Scale == 10 ^ Decimals

Num(n) == [t |-> "num", n |-> n, s |-> <<>>]
Str(s) == [t |-> "str", n |-> 0, s |-> s]
\* None (an empty spreadsheet cell)
NoneV == [t |-> "none", n |-> 0, s |-> <<>>]

Abs(x) == IF x < 0 THEN -x ELSE x

DigitChars == <<"0", "1", "2", "3", "4", "5", "6", "7", "8", "9">>
IsDigit(c) == \E i \in 1..10 : DigitChars[i] = c
DigitVal(c) == (CHOOSE i \in 1..10 : DigitChars[i] = c) - 1

RECURSIVE LStrip(_)
LStrip(s) == IF s # <<>> /\ Head(s) = " " THEN LStrip(Tail(s)) ELSE s
RECURSIVE RStrip(_)
RStrip(s) ==
  IF s # <<>> /\ s[Len(s)] = " " THEN RStrip(SubSeq(s, 1, Len(s) - 1)) ELSE s
\* str.strip()
Strip(s) == RStrip(LStrip(s))

RECURSIVE Concat(_, _, _)
\* parts[lo] \o ... \o parts[hi], joined by halves
Concat(parts, lo, hi) ==
  IF lo > hi THEN <<>>
  ELSE IF lo = hi THEN parts[lo]
  ELSE Concat(parts, lo, (lo + hi) \div 2) \o Concat(parts, ((lo + hi) \div 2) + 1, hi)

\* str.replace(old, new) for a one-character old; new is a text
Replace(s, old, new) ==
  Concat([i \in 1..Len(s) |-> IF s[i] = old THEN new ELSE <<s[i]>>], 1, Len(s))

\* the text as one string
Join(s) == IF s = <<>> THEN "" ELSE Concat(s, 1, Len(s))

RECURSIVE NatDigits(_)
\* the decimal digits of a natural number
NatDigits(n) ==
  IF n < 10 THEN <<DigitChars[n + 1]>>
  ELSE NatDigits(n \div 10) \o <<DigitChars[(n % 10) + 1]>>

RECURSIVE DigitsVal(_)
DigitsVal(s) ==
  IF s = <<>> THEN 0
  ELSE DigitsVal(SubSeq(s, 1, Len(s) - 1)) * 10 + DigitVal(s[Len(s)])

RECURSIVE Zeros(_)
Zeros(n) == IF n <= 0 THEN <<>> ELSE <<"0">> \o Zeros(n - 1)

\* the fraction digits of a decimal literal as an amount below one unit
\* (digits beyond the resolution are dropped; the inputs carry none)
FracVal(fp) == DigitsVal(SubSeq(fp \o Zeros(Decimals), 1, Decimals))

\* the outcome of a conversion that raises ValueError
ValueError == [ok |-> FALSE, n |-> 0]

\* the amount written with the digits ip before and fp after the point
DecimalValue(ip, fp) ==
  IF /\ \A i \in 1..Len(ip) : IsDigit(ip[i])
     /\ \A i \in 1..Len(fp) : IsDigit(fp[i])
     /\ Len(ip) + Len(fp) > 0
  THEN [ok |-> TRUE, n |-> DigitsVal(ip) * Scale + FracVal(fp)]
  ELSE ValueError

\* the literal u split at position p of its decimal point
SplitDecimal(u, p) == DecimalValue(SubSeq(u, 1, p - 1), SubSeq(u, p + 1, Len(u)))

\* an unsigned literal with its decimal points at the positions dots
PointedDecimal(u, dots) ==
  IF Cardinality(dots) > 1 THEN ValueError
  ELSE SplitDecimal(u, IF dots = {} THEN Len(u) + 1 ELSE CHOOSE i \in dots : TRUE)

\* an unsigned literal: digits with an optional decimal point
UnsignedDecimal(u) == PointedDecimal(u, {i \in 1..Len(u) : u[i] = "."})

\* the magnitude f under the sign of the literal
Signed(neg, f) == [ok |-> f.ok, n |-> IF neg THEN -f.n ELSE f.n]

\* a literal with an optional sign
SignedDecimal(t) ==
  Signed(t # <<>> /\ Head(t) = "-",
         UnsignedDecimal(IF t # <<>> /\ Head(t) \in {"-", "+"} THEN Tail(t) ELSE t))

\* float(text): surrounding blanks stripped, an optional sign, digits with
\* an optional decimal point; anything else raises ValueError (ok = FALSE)
float_of_text(s) == SignedDecimal(Strip(s))

\* float(value): a number converts to itself, a text is parsed, None raises
float(v) ==
  IF v.t = "num" THEN [ok |-> TRUE, n |-> v.n]
  ELSE IF v.t = "str" THEN float_of_text(v.s)
  ELSE ValueError

RECURSIVE TrimZeros(_)
\* trailing zeros dropped, one digit kept
TrimZeros(s) ==
  IF Len(s) > 1 /\ s[Len(s)] = "0" THEN TrimZeros(SubSeq(s, 1, Len(s) - 1)) ELSE s

\* repr of a float: the shortest decimal, always with a fraction digit
float_repr(n) ==
  LET mag == Abs(n)
      frac == mag % Scale
      fd == Zeros(Decimals - Len(NatDigits(frac))) \o NatDigits(frac)
  IN (IF n < 0 THEN <<"-">> ELSE <<>>) \o NatDigits(mag \div Scale) \o <<".">> \o TrimZeros(fd)

\* str(value)
str(v) ==
  IF v.t = "str" THEN v.s
  ELSE IF v.t = "num" THEN float_repr(v.n)
  ELSE <<"N", "o", "n", "e">>

\* the truth value of a Python object: 0, 0.0, "" and None are false
Falsy(v) == \/ v.t = "none"
            \/ v.t = "num" /\ v.n = 0
            \/ v.t = "str" /\ v.s = <<>>

\* parse_float(value), lines 49-56: blanks dropped, a decimal comma read
\* as a point; 0.0 for an empty or malformed text
\* try: return float(normalized)
\* except ValueError: return 0.0
FloatOrZero(f) == IF f.ok THEN f.n ELSE 0

\* if normalized == "": return 0.0
ParseNormalized(normalized) ==
  IF normalized = <<>> THEN 0 ELSE FloatOrZero(float_of_text(normalized))

parse_float(value) ==
  ParseNormalized(Replace(Replace(Strip(value), " ", <<>>), ",", <<".">>))

\* d.get(key, default)
Get(m, key, default) == IF key \in DOMAIN m THEN m[key] ELSE default

\* d.get(key, 0) or 0
GetOrZero(m, key) ==
  LET v == Get(m, key, Num(0)) IN IF Falsy(v) THEN Num(0) ELSE v

----------------------------------------------------------------------------
\* Aggregation Engine: sum_*, src lines 124-175.  A result is the record
\* [raised, total]: raised tells that an exception left the function.

\* SumStep without the except clause: the exception leaves the function
SumStepNoExcept(m, key, acc) ==
  IF key \notin DOMAIN m THEN acc
  ELSE LET f == float(GetOrZero(m, key))
       IN IF f.ok THEN [raised |-> acc.raised, total |-> acc.total + f.n]
          ELSE [raised |-> TRUE, total |-> acc.total]

\* the loop body: try: total += float(d.get(key, 0) or 0)
\*                except Exception: continue
\* (an absent key adds float(0) and leaves the total as it is)
SumStep(m, key, acc) ==
  IF key \notin DOMAIN m THEN acc
  ELSE LET f == float(GetOrZero(m, key))
       IN IF f.ok THEN [raised |-> acc.raised, total |-> acc.total + f.n]
          ELSE acc

RECURSIVE SumKeys(_, _, _)
\* for key in keys: <loop body>
SumKeys(m, keys, acc) ==
  IF keys = <<>> THEN acc
  ELSE SumKeys(m, Tail(keys), SumStep(m, Head(keys), acc))

\* total = 0.0
ZeroTotal == [raised |-> FALSE, total |-> 0]

sum_donen_varliklar(m) == SumKeys(m, DONEN_KEYS, ZeroTotal)

\* SubtractAmort with the amount added instead of subtracted
SubtractAmortAdded(m, acc) ==
  LET f == float(GetOrZero(m, "birikmiAmort"))
  IN IF f.ok THEN [raised |-> acc.raised, total |-> acc.total + f.n]
     ELSE acc

\* try: total -= float(d.get("birikmiAmort", 0) or 0)
\* except Exception: pass
SubtractAmort(m, acc) ==
  LET f == float(GetOrZero(m, "birikmiAmort"))
  IN IF f.ok THEN [raised |-> acc.raised, total |-> acc.total - f.n]
     ELSE acc

sum_duran_varliklar(m) == SubtractAmort(m, SumKeys(m, DURAN_KEYS, ZeroTotal))

sum_kv_yabanci_kaynaklar(m) == SumKeys(m, KV_KEYS, ZeroTotal)

sum_uv_yabanci_kaynaklar(m) == SumKeys(m, UV_KEYS, ZeroTotal)

sum_oz_kaynaklar(m) == SumKeys(m, OZ_KEYS, ZeroTotal)

----------------------------------------------------------------------------
\* Amount formatting: format_tl, src lines 178-179.

RECURSIVE GroupThousands(_)
\* the "," option of the format: a comma before every group of three digits
GroupThousands(ds) ==
  IF Len(ds) <= 3 THEN ds
  ELSE GroupThousands(SubSeq(ds, 1, Len(ds) - 3)) \o <<",">>
       \o SubSeq(ds, Len(ds) - 2, Len(ds))

\* f"{value:,.2f}"
FormatCommaFixed(n) ==
  LET mag == Abs(n)
      frac == NatDigits(mag % Scale)
  IN (IF n < 0 THEN <<"-">> ELSE <<>>)
     \o GroupThousands(NatDigits(mag \div Scale))
     \o <<".">> \o Zeros(Decimals - Len(frac)) \o frac

\* .replace(",", "_").replace(".", ",").replace("_", ".")
format_tl(n) ==
  Join(Replace(Replace(Replace(FormatCommaFixed(n), ",", <<"_">>), ".", <<",">>),
               "_", <<".">>))

\* FormatRatio that drops the zeros before the fraction digits, as "{x}"
\* does
FormatRatioUnpadded(neg, num, den) ==
  LET q == (num * Scale) \div den
      r == (num * Scale) % den
      up == 2 * r > den \/ (2 * r = den /\ q % 2 = 1)
      c == IF up THEN q + 1 ELSE q
  IN Join((IF neg THEN <<"-">> ELSE <<>>) \o NatDigits(c \div Scale)
          \o <<".">> \o NatDigits(c % Scale))

\* f"{x:.2f}" of the quotient num / den (num >= 0, den > 0) with the sign
\* neg, rounded half to even; a negative zero keeps its sign
FormatRatio(neg, num, den) ==
  LET q == (num * Scale) \div den
      r == (num * Scale) % den
      up == 2 * r > den \/ (2 * r = den /\ q % 2 = 1)
      c == IF up THEN q + 1 ELSE q
      frac == NatDigits(c % Scale)
  IN Join((IF neg THEN <<"-">> ELSE <<>>) \o NatDigits(c \div Scale)
          \o <<".">> \o Zeros(Decimals - Len(frac)) \o frac)

----------------------------------------------------------------------------
\* Validation Engine: validate, src lines 182-222.  A finding is
\* [tip, mesaj]; mesaj is the sequence of the pieces of the f-string.

\* 0.01 in amount units
Tolerance == 1

\* Unbalanced with the tolerance itself counted as a mismatch
UnbalancedAtTolerance(aktif, pasif) == Abs(aktif - pasif) >= Tolerance

\* Unbalanced that reports only liabilities in excess of the assets
UnbalancedLiabilitiesOnly(aktif, pasif) == pasif - aktif > Tolerance

\* if abs(aktif - pasif) > 0.01
Unbalanced(aktif, pasif) == Abs(aktif - pasif) > Tolerance

BalanceFinding(aktif, pasif) ==
  [tip |-> "kritik",
   mesaj |-> <<"Bilanco dengesizligi: Aktif (", format_tl(aktif),
               " TL) != Pasif (", format_tl(pasif),
               " TL). Fark: ", format_tl(aktif - pasif), " TL">>]

\* if not str(d.get("isletmeAdi", "")).strip()
NameMissing(m) == Strip(str(Get(m, "isletmeAdi", Str(<<>>)))) = <<>>

NameFinding == [tip |-> "uyari", mesaj |-> <<"Isletme adi bos birakilmamalidir.">>]

\* SkippedKeys without the accumulated depreciation
SkippedKeysTextOnly == {"isletmeAdi", "bilancoTarihi"}

\* if key in ("isletmeAdi", "bilancoTarihi", "birikmiAmort"): continue
SkippedKeys == {"isletmeAdi", "bilancoTarihi", "birikmiAmort"}

NegativeFinding(key, num) ==
  [tip |-> "uyari",
   mesaj |-> <<key, " negatif deger iceriyor: ", Join(float_repr(num))>>]

\* the loop body: f is the outcome of float(value)
NegativeCheck(key, f) ==
  IF key \notin SkippedKeys /\ f.ok /\ f.n < 0
  THEN <<NegativeFinding(key, f.n)>> ELSE <<>>

RECURSIVE NegativeFindings(_, _)
\* for key, value in d.items(): items is the mapping's iteration order
NegativeFindings(m, items) ==
  IF items = <<>> THEN <<>>
  ELSE NegativeCheck(Head(items), float(m[Head(items)]))
       \o NegativeFindings(m, Tail(items))

\* likidite_orani = dv / (kv if kv != 0 else 1), as sign and magnitude
\* num / den; a zero dv divided by a negative kv is the float -0.0
LikiditeOrani(dv, kv) ==
  [neg |-> (dv < 0 /\ kv >= 0) \/ (dv >= 0 /\ kv < 0),
   num |-> Abs(dv),
   den |-> IF kv = 0 THEN Scale ELSE Abs(kv)]

\* LowLiquidity that is silent when there are no short-term liabilities
LowLiquidityWithDebtOnly(dv, kv) ==
  kv # 0 /\ (LikiditeOrani(dv, kv).neg
              \/ LikiditeOrani(dv, kv).num < LikiditeOrani(dv, kv).den)

\* if likidite_orani < 1.0
LowLiquidity(dv, kv) ==
  LikiditeOrani(dv, kv).neg \/ LikiditeOrani(dv, kv).num < LikiditeOrani(dv, kv).den

LiquidityFinding(dv, kv) ==
  [tip |-> "uyari",
   mesaj |-> <<"Likidite orani dusuk (",
               FormatRatio(LikiditeOrani(dv, kv).neg, LikiditeOrani(dv, kv).num,
                           LikiditeOrani(dv, kv).den),
               "). Kisa vadeli borclar donen varliklardan fazla.">>]

EquityFinding ==
  [tip |-> "kritik",
   mesaj |-> <<"Oz kaynaklar negatif! Isletme mali sikinti icinde olabilir.">>]

EmptyFinding ==
  [tip |-> "uyari",
   mesaj |-> <<"Hicbir varlik girilmemis. Bilanco bos gorunuyor.">>]

\* CheckOrder with the equity check moved before the liquidity check
CheckOrderEquityEarly(balance, name, negative, liquidity, equity, empty) ==
  balance \o name \o negative \o equity \o liquidity \o empty

\* the findings of the checks, in the order the code appends them
CheckOrder(balance, name, negative, liquidity, equity, empty) ==
  balance \o name \o negative \o liquidity \o equity \o empty

BalanceCheck(aktif, pasif) ==
  IF Unbalanced(aktif, pasif) THEN <<BalanceFinding(aktif, pasif)>> ELSE <<>>

NameCheck(m) == IF NameMissing(m) THEN <<NameFinding>> ELSE <<>>

LiquidityCheck(dv, kv) ==
  IF LowLiquidity(dv, kv) THEN <<LiquidityFinding(dv, kv)>> ELSE <<>>

\* if sum_oz_kaynaklar(d) < 0
EquityCheck(oz) == IF oz < 0 THEN <<EquityFinding>> ELSE <<>>

\* if aktif == 0
EmptyCheck(aktif) == IF aktif = 0 THEN <<EmptyFinding>> ELSE <<>>

\* Checks that appends to the list of the call before instead of a new list
ChecksAppended(m, items, aktif, pasif, dv, kv, oz) ==
  errors \o CheckOrder(BalanceCheck(aktif, pasif), NameCheck(m),
                       NegativeFindings(m, items), LiquidityCheck(dv, kv),
                       EquityCheck(oz), EmptyCheck(aktif))

\* the checks over the totals the function has computed
Checks(m, items, aktif, pasif, dv, kv, oz) ==
  CheckOrder(BalanceCheck(aktif, pasif), NameCheck(m), NegativeFindings(m, items),
             LiquidityCheck(dv, kv), EquityCheck(oz), EmptyCheck(aktif))

validate(m, items) ==
  Checks(m, items,
         sum_donen_varliklar(m).total + sum_duran_varliklar(m).total,
         sum_kv_yabanci_kaynaklar(m).total + sum_uv_yabanci_kaynaklar(m).total
           + sum_oz_kaynaklar(m).total,
         sum_donen_varliklar(m).total,
         sum_kv_yabanci_kaynaklar(m).total,
         sum_oz_kaynaklar(m).total)

----------------------------------------------------------------------------
\* Texts as the spreadsheet reader normalises them, src lines 417-424.  A
\* text is a sequence of characters; a Turkish letter is the character named
\* after it ("c_cedilla", "i_dotless", "I_dotted", ...), a combining mark of
\* its decomposition is named "comb_...".

UpperChars ==
  <<"A", "B", "C", "D", "E", "F", "G", "H", "I", "J", "K", "L", "M",
    "N", "O", "P", "Q", "R", "S", "T", "U", "V", "W", "X", "Y", "Z">>
LowerChars ==
  <<"a", "b", "c", "d", "e", "f", "g", "h", "i", "j", "k", "l", "m",
    "n", "o", "p", "q", "r", "s", "t", "u", "v", "w", "x", "y", "z">>

\* str.lower() of one character: the dotted capital I becomes i followed by
\* a combining dot
LowerChar(c) ==
  IF \E i \in DOMAIN UpperChars : UpperChars[i] = c
    THEN <<LowerChars[CHOOSE i \in DOMAIN UpperChars : UpperChars[i] = c]>>
  ELSE CASE c = "C_cedilla" -> <<"c_cedilla">>
         [] c = "G_breve" -> <<"g_breve">>
         [] c = "O_diaeresis" -> <<"o_diaeresis">>
         [] c = "S_cedilla" -> <<"s_cedilla">>
         [] c = "U_diaeresis" -> <<"u_diaeresis">>
         [] c = "I_dotted" -> <<"i", "comb_dot_above">>
         [] OTHER -> <<c>>

\* str.lower()
Lower(s) == Concat([i \in 1..Len(s) |-> LowerChar(s[i])], 1, Len(s))

\* unicodedata.normalize("NFKD", c) of one character: the dotless i has no
\* decomposition
NFKDChar(c) ==
  CASE c = "c_cedilla" -> <<"c", "comb_cedilla">>
    [] c = "C_cedilla" -> <<"C", "comb_cedilla">>
    [] c = "g_breve" -> <<"g", "comb_breve">>
    [] c = "G_breve" -> <<"G", "comb_breve">>
    [] c = "o_diaeresis" -> <<"o", "comb_diaeresis">>
    [] c = "O_diaeresis" -> <<"O", "comb_diaeresis">>
    [] c = "s_cedilla" -> <<"s", "comb_cedilla">>
    [] c = "S_cedilla" -> <<"S", "comb_cedilla">>
    [] c = "u_diaeresis" -> <<"u", "comb_diaeresis">>
    [] c = "U_diaeresis" -> <<"U", "comb_diaeresis">>
    [] c = "I_dotted" -> <<"I", "comb_dot_above">>
    [] OTHER -> <<c>>

\* unicodedata.normalize("NFKD", s)
NFKD(s) == Concat([i \in 1..Len(s) |-> NFKDChar(s[i])], 1, Len(s))

\* unicodedata.combining(ch) != 0
Combining(c) ==
  c \in {"comb_cedilla", "comb_breve", "comb_diaeresis", "comb_dot_above"}

\* allowed = "abcdefghijklmnopqrstuvwxyz0123456789 "
Allowed(c) ==
  \/ \E i \in DOMAIN LowerChars : LowerChars[i] = c
  \/ IsDigit(c)
  \/ c = " "

\* the words of a text without surrounding blanks, one blank between them:
\* every run of blanks inside the text is kept as its first blank
JoinWords(t) ==
  Concat([i \in 1..Len(t) |-> IF t[i] # " " THEN <<t[i]>>
                               ELSE IF t[i - 1] # " " THEN <<" ">>
                               ELSE <<>>], 1, Len(t))

\* " ".join(s.split())
CollapseSpaces(s) == JoinWords(Strip(s))

\* "".join(ch if ch in allowed else " " for ch in s)
KeepAllowed(s) == [i \in 1..Len(s) |-> IF Allowed(s[i]) THEN s[i] ELSE " "]

\* "".join(ch for ch in s if not unicodedata.combining(ch))
DropCombining(s) == SelectSeq(s, LAMBDA c : ~Combining(c))

\* _normalize(s)
normalize(s) == CollapseSpaces(KeepAllowed(DropCombining(NFKD(Lower(Strip(s))))))

----------------------------------------------------------------------------
\* The spreadsheet writer, src lines 341-371.  A workbook is the sequence of
\* its sheets, a sheet is [title, rows], a row is a sequence of cells, and a
\* cell holds a text, a number or None.  The rows of a sheet have the same
\* length, the sheet's max_column.

\* the workbook of a path that holds no file
NoWorkbook == <<>>

\* ws.append(["Taraf", "Grup", "Etiket", "Anahtar", "Tutar"])
HeaderRow ==
  << Str(<<"T", "a", "r", "a", "f">>), Str(<<"G", "r", "u", "p">>),
     Str(<<"E", "t", "i", "k", "e", "t">>),
     Str(<<"A", "n", "a", "h", "t", "a", "r">>), Str(<<"T", "u", "t", "a", "r">>) >>

\* val = float(d.get(key, 0) or 0), 0.0 when that raises
RowAmount(m, key) == FloatOrZero(float(GetOrZero(m, key)))

RECURSIVE FieldRows(_, _, _, _)
\* the rows (side, group, label, key, val) of one group, dummy keys skipped
FieldRows(m, side, group, fields) ==
  IF fields = <<>> THEN <<>>
  ELSE (IF EndsWithDummy(Head(fields)) THEN <<>>
        ELSE << << Str(<<side>>), Str(group), Str(Head(fields).label),
                   Str(<<FieldKey(Head(fields))>>),
                   Num(RowAmount(m, FieldKey(Head(fields)))) >> >>)
       \o FieldRows(m, side, group, Tail(fields))

RECURSIVE GroupRows(_, _, _)
GroupRows(m, side, groups) ==
  IF groups = <<>> THEN <<>>
  ELSE FieldRows(m, side, Head(groups).group, Head(groups).fields)
       \o GroupRows(m, side, Tail(groups))

build_excel_rows_from_data(m) ==
  GroupRows(m, "AKTIF", SECTION_FIELDS.AKTIF)
  \o GroupRows(m, "PASIF", SECTION_FIELDS.PASIF)

\* the labels of the two cells of the sheet "Bilgi"
MetaLabels ==
  << <<"I_dotted", "s_cedilla", "l", "e", "t", "m", "e", " ", "A", "d", "i_dotless">>,
     <<"B", "i", "l", "a", "n", "c_cedilla", "o", " ", "T", "a", "r", "i", "h", "i">> >>

\* the workbook save_to_excel(path, d) leaves at path
save_to_excel(m) ==
  << [title |-> "Bilanco",
      rows |-> <<HeaderRow>> \o build_excel_rows_from_data(m)],
     [title |-> "Bilgi",
      rows |-> << << Str(MetaLabels[1]), Str(str(Get(m, "isletmeAdi", Str(<<>>)))) >>,
                  << Str(MetaLabels[2]), Str(str(Get(m, "bilancoTarihi", Str(<<>>)))) >> >>] >>

----------------------------------------------------------------------------
\* The spreadsheet reader, src lines 374-570.

HasSheet(wb, title) == \E i \in DOMAIN wb : wb[i].title = title

\* wb[title]
SheetNamed(wb, title) ==
  wb[CHOOSE i \in DOMAIN wb :
       wb[i].title = title /\ \A j \in 1..(i - 1) : wb[j].title # title]

\* the value of the cell at row r, column c: None outside the filled rows
CellValue(rows, r, c) ==
  IF r \in DOMAIN rows /\ c \in DOMAIN rows[r] THEN rows[r][c] ELSE NoneV

\* value or ""
OrEmpty(v) == IF Falsy(v) THEN Str(<<>>) ELSE v

\* the entries read from the sheet "Bilgi", lines 380-383
LoadMeta(wb) ==
  IF HasSheet(wb, "Bilgi")
    THEN [k \in {"isletmeAdi", "bilancoTarihi"} |->
            IF k = "isletmeAdi"
              THEN Str(str(OrEmpty(CellValue(SheetNamed(wb, "Bilgi").rows, 1, 2))))
              ELSE Str(str(OrEmpty(CellValue(SheetNamed(wb, "Bilgi").rows, 2, 2))))]
    ELSE <<>>

\* ws.max_column and ws.max_row: 1 for a sheet without cells
MaxColumn(rows) == IF rows = <<>> THEN 1 ELSE Len(rows[1])
MaxRow(rows) == IF rows = <<>> THEN 1 ELSE Len(rows)

\* ws[r]: the cells of row r, empty cells beyond the filled rows
SheetRow(rows, r) ==
  IF r \in DOMAIN rows THEN rows[r] ELSE [c \in 1..MaxColumn(rows) |-> NoneV]

\* row_vals of line 399: each cell as stripped lower-case text, "" for None
RowVals(row) ==
  [c \in DOMAIN row |->
     IF row[c].t = "none" THEN "" ELSE Join(Lower(Strip(str(row[c]))))]

Contains(rv, x) == \E i \in DOMAIN rv : rv[i] = x

\* row_vals.index(x) + 1
IndexOf(rv, x) ==
  CHOOSE i \in DOMAIN rv : rv[i] = x /\ \A j \in 1..(i - 1) : rv[j] # x

\* if "anahtar" in row_vals and "tutar" in row_vals
IsHeader(rv) == Contains(rv, "anahtar") /\ Contains(rv, "tutar")

RECURSIVE FindHeader(_, _, _)
\* the first of the rows r..last that holds "anahtar" and "tutar", 0 if none
FindHeader(rows, r, last) ==
  IF r > last THEN 0
  ELSE IF IsHeader(RowVals(SheetRow(rows, r))) THEN r
  ELSE FindHeader(rows, r + 1, last)

\* lines 403-409: the columns named by the header row r with the values
\* rv; a column is 0 while unset (r = 0: no row is a header)
HeaderColumns(r, rv) ==
  IF r = 0
    THEN [header_row_idx |-> 1, key_col |-> 0, val_col |-> 0, label_col |-> 0]
    ELSE [header_row_idx |-> r,
          key_col |-> IndexOf(rv, "anahtar"),
          val_col |-> IndexOf(rv, "tutar"),
          label_col |-> IF Contains(rv, "etiket") THEN IndexOf(rv, "etiket") ELSE 3]

ColumnsAt(rows, r) == HeaderColumns(r, RowVals(SheetRow(rows, r)))

\* the header row and the columns the loop of lines 398-409 detects
DetectedColumns(rows) ==
  ColumnsAt(rows, FindHeader(rows, 1, IF MaxRow(rows) < 10 THEN MaxRow(rows) ELSE 10))

\* lines 410-414: in the detailed format the default positions are set
\* after the detection, whatever it found
FallbackColumns(det) ==
  [det EXCEPT !.key_col = 4, !.val_col = 5, !.label_col = 3]

\* the format of the first sheet, lines 388-414
DetectFormat(rows) ==
  IF MaxColumn(rows) <= 2
    THEN [is_simple_format |-> TRUE, header_row_idx |-> 1,
          key_col |-> 0, val_col |-> 2, label_col |-> 1]
    ELSE [is_simple_format |-> FALSE] @@ FallbackColumns(DetectedColumns(rows))

\* a text as one string, normalised: the form in which labels are looked up
Norm(s) == Join(normalize(s))

\* the groups of the sides "AKTIF" and "PASIF", in the order of line 435
SidesOf(sf) == sf.AKTIF \o sf.PASIF

AllGroups == SidesOf(SECTION_FIELDS)

\* the (group, label, key) of the fields kept of one group
FieldEntries(group_norm, kept) ==
  [i \in DOMAIN kept |->
     [group |-> group_norm, label |-> Norm(kept[i].label), key |-> FieldKey(kept[i])]]

RECURSIVE GroupEntries(_)
\* the (group, label, key) of lines 436-446 in schema order, dummy keys
\* skipped, group and label in normal form
GroupEntries(groups) ==
  IF groups = <<>> THEN <<>>
  ELSE FieldEntries(Norm(Head(groups).group),
                    SelectSeq(Head(groups).fields, LAMBDA f : ~EndsWithDummy(f)))
       \o GroupEntries(Tail(groups))

SchemaEntries == GroupEntries(AllGroups)

\* the mapping the assignments m[label] = key of the entries leave: the
\* last assignment to a label stays
LastAssigned(entries) ==
  [n \in {entries[i].label : i \in DOMAIN entries} |->
     entries[CHOOSE i \in DOMAIN entries :
               /\ entries[i].label = n
               /\ \A j \in DOMAIN entries : j > i => entries[j].label # n].key]

\* normalised label -> key, over all groups (line 445)
label_to_key == LastAssigned(SchemaEntries)

GroupNames(groups) == {Norm(groups[i].group) : i \in DOMAIN groups}

\* line 438
group_names_norm == GroupNames(AllGroups)

GroupMaps(names, entries) ==
  [g \in names |-> LastAssigned(SelectSeq(entries, LAMBDA e : e.group = g))]

\* normalised group name -> (normalised label -> key), line 446
group_label_to_key_map == GroupMaps(group_names_norm, SchemaEntries)

\* the calls _alias(src, target_label) of lines 459-470
ALIASES ==
  <<
    [src |-> <<"D","o","n","e","m"," ","K","a","r","i"," ","V","e","r","g","i"," ","Y","u","k","u","m","l","u","l","u","g","u">>,
     target_label |-> <<"D","o_diaeresis","n","e","m"," ","K","a","r","i_dotless"," ","V","e","r","g","i"," ","Y","u_diaeresis","k","u_diaeresis","m","l","u_diaeresis","l","u_diaeresis","g_breve","u_diaeresis">>],
    [src |-> <<"D","o","n","e","m"," ","K","a","r"," ","V","e","r","g","i"," ","Y","u","k","u","m","l","u","l","u","g","u">>,
     target_label |-> <<"D","o_diaeresis","n","e","m"," ","K","a","r","i_dotless"," ","V","e","r","g","i"," ","Y","u_diaeresis","k","u_diaeresis","m","l","u_diaeresis","l","u_diaeresis","g_breve","u_diaeresis">>],
    [src |-> <<"C","a","r","i"," ","D","o","n","e","m"," ","V","e","r","g","i","s","i","y","l","e"," ","i","l","g","i","l","i"," ","V","a","r","l","i","k","l","a","r">>,
     target_label |-> <<"C","a","r","i"," ","D","o_diaeresis","n","e","m"," ","V","e","r","g","i","s","i","y","l","e"," ","I_dotted","l","g","i","l","i"," ","V","a","r","l","i_dotless","k","l","a","r">>],
    [src |-> <<"C","a","r","i"," ","D","o","n","e","m"," ","V","e","r","g","i","s","i","y","l","e"," ","i","l","g","i","l","i"," ","B","o","r","c","l","a","r">>,
     target_label |-> <<"C","a","r","i"," ","D","o_diaeresis","n","e","m"," ","V","e","r","g","i","s","i","y","l","e"," ","I_dotted","l","g","i","l","i"," ","B","o","r","c_cedilla","l","a","r">>],
    [src |-> <<"O","z","k","a","y","n","a","k"," ","Y","o","n","t","e","m","i","y","l","e"," ","D","e","g","e","r","l","e","n","e","n"," ","Y","a","t","i","r","i","m","l","a","r","d","a","n"," ","Y","u","k","u","m","l","u","l","u","k","l","e","r">>,
     target_label |-> <<"O_diaeresis","z","k","a","y","n","a","k"," ","Y","o_diaeresis","n","t","e","m","i","y","l","e"," ","D","e","g_breve","e","r","l","e","n","e","n"," ","Y","a","t","i_dotless","r","i_dotless","m","l","a","r","d","a","n"," ","Y","u_diaeresis","k","u_diaeresis","m","l","u_diaeresis","l","u_diaeresis","k","l","e","r">>],
    [src |-> <<"O","z","k","a","y","n","a","k"," ","Y","o","n","t","e","m","i","y","l","e"," ","D","e","g","e","r","l","e","n","e","n"," ","Y","a","t","i","r","i","m","l","a","r">>,
     target_label |-> <<"O_diaeresis","z","k","a","y","n","a","k"," ","Y","o_diaeresis","n","t","e","m","i","y","l","e"," ","D","e","g_breve","e","r","l","e","n","e","n"," ","Y","a","t","i_dotless","r","i_dotless","m","l","a","r">>],
    [src |-> <<"P","e","s","i","n"," ","O","d","e","n","m","i","s"," ","G","i","d","e","r","l","e","r">>,
     target_label |-> <<"P","e","s_cedilla","i","n"," ","O_diaeresis","d","e","n","m","i","s_cedilla"," ","G","i","d","e","r","l","e","r">>],
    [src |-> <<"E","r","t","e","l","e","n","m","i","s"," ","V","e","r","g","i"," ","V","a","r","l","i","g","i">>,
     target_label |-> <<"E","r","t","e","l","e","n","m","i","s_cedilla"," ","V","e","r","g","i"," ","V","a","r","l","i_dotless","g_breve","i_dotless">>],
    [src |-> <<"E","r","t","e","l","e","n","m","i","s"," ","G","e","l","i","r","l","e","r">>,
     target_label |-> <<"E","r","t","e","l","e","n","m","i","s_cedilla"," ","G","e","l","i","r","l","e","r">>],
    [src |-> <<"T","u","r","k","i","y","e"," ","C","u","m","h","u","r","i","y","e","t","i"," ","M","e","r","k","e","z"," ","B","a","n","k","a","s","i"," ","H","e","s","a","b","i">>,
     target_label |-> <<"T","u_diaeresis","r","k","i","y","e"," ","C","u","m","h","u","r","i","y","e","t"," ","M","e","r","k","e","z"," ","B","a","n","k","a","s","i_dotless"," ","H","e","s","a","b","i_dotless">>],
    [src |-> <<"T","u_diaeresis","r","k","i","y","e"," ","C","u","m","h","u","r","i","y","e","t","i"," ","M","e","r","k","e","z"," ","B","a","n","k","a","s","i_dotless"," ","H","e","s","a","b","i_dotless">>,
     target_label |-> <<"T","u_diaeresis","r","k","i","y","e"," ","C","u","m","h","u","r","i","y","e","t"," ","M","e","r","k","e","z"," ","B","a","n","k","a","s","i_dotless"," ","H","e","s","a","b","i_dotless">>]
  >>

LabelsOf(groups) ==
  UNION { {groups[i].fields[j].label : j \in DOMAIN groups[i].fields}
          : i \in DOMAIN groups }

\* the labels of the schema as written, dummy rows included (line 453)
SchemaLabels == LabelsOf(AllGroups)

\* _alias, lines 451-456: an alias is kept when its target is a label of
\* the schema whose normal form has a key
AliasKept(a, labels, ltk) ==
  /\ a.target_label \in labels
  /\ Norm(a.target_label) \in DOMAIN ltk
  /\ ltk[Norm(a.target_label)] # ""

\* alias_to_key[norm_src] = key, for the calls kept
AliasAssignments(kept, ltk) ==
  [i \in DOMAIN kept |->
     [label |-> Norm(kept[i].src), key |-> ltk[Norm(kept[i].target_label)]]]

AliasEntriesOf(aliases, labels, ltk) ==
  AliasAssignments(SelectSeq(aliases, LAMBDA a : AliasKept(a, labels, ltk)), ltk)

AliasEntries == AliasEntriesOf(ALIASES, SchemaLabels, label_to_key)

alias_to_key == LastAssigned(AliasEntries)

\* the tables load_from_excel builds before it reads the rows
LabelMaps ==
  [label_to_key |-> label_to_key,
   group_label_to_key_map |-> group_label_to_key_map,
   group_names_norm |-> group_names_norm,
   alias_to_key |-> alias_to_key]

\* val is None or str(val).strip() == ""
IsBlank(v) == v.t = "none" \/ Strip(str(v)) = <<>>

\* float(val) if val is not None and str(val).strip() != "" else 0.0, and
\* 0.0 when float raises (lines 528-531, 566-569)
CellAmount(val) ==
  IF IsBlank(val) THEN Num(0) ELSE Num(FloatOrZero(float(val)))

RECURSIVE LastNumeric(_)
\* try: value = float(v); break
\* except Exception: continue
NumericOr(f, rest) == IF f.ok THEN Num(f.n) ELSE LastNumeric(rest)

\* the last cell float() accepts, as a number; None if there is none
LastNumeric(cells) ==
  IF cells = <<>> THEN NoneV
  ELSE NumericOr(float(cells[Len(cells)]), SubSeq(cells, 1, Len(cells) - 1))

RECURSIVE FirstText(_)
\* the first cell that is a non-blank str; None if there is none
FirstText(cells) ==
  IF cells = <<>> THEN NoneV
  ELSE IF Head(cells).t = "str" /\ Strip(Head(cells).s) # <<>> THEN Head(cells)
  ELSE FirstText(Tail(cells))

\* the label and the value picked among the non-empty cells
PickAmong(non_empty) ==
  [label |-> FirstText(non_empty), value |-> LastNumeric(non_empty)]

\* _pick_label_value(row_vals), lines 472-493
pick_label_value(row) == PickAmong(SelectSeq(row, LAMBDA v : ~IsBlank(v)))

\* a key as a value: the one-piece text of the key
KeyText(key) == Str(IF key = "" THEN <<>> ELSE <<key>>)

\* group_label_to_key_map.get(current_group, {})
GroupMapOf(maps, group) ==
  IF group \in DOMAIN maps.group_label_to_key_map
    THEN maps.group_label_to_key_map[group] ELSE <<>>

\* lines 516-520 and 550-554: the key of a normalised label, the map of the
\* current group first; None if the label is unknown.  current_group is
\* None or the normalised name of a group.
LookupLabel(maps, norm, current_group) ==
  IF ~Falsy(current_group) /\ norm \in DOMAIN GroupMapOf(maps, Join(current_group.s))
    THEN KeyText(GroupMapOf(maps, Join(current_group.s))[norm])
  ELSE IF norm \in DOMAIN maps.label_to_key THEN KeyText(maps.label_to_key[norm])
  ELSE NoneV

\* lines 555-556: the aliases are asked when the label maps are silent
LookupAlias(maps, norm, mapped) ==
  IF mapped.t = "none" /\ norm \in DOMAIN maps.alias_to_key
    THEN KeyText(maps.alias_to_key[norm]) ELSE mapped

\* the cells the loop body reads from a row: label and value of the simple
\* format (lines 505-506), key, value and label of the detailed one
\* (lines 534-536)
RowCells(row, fmt) ==
  IF fmt.is_simple_format
    THEN [key |-> NoneV,
          val |-> IF Len(row) >= 2 THEN row[2] ELSE NoneV,
          label |-> IF Len(row) >= 1 THEN row[1] ELSE NoneV]
    ELSE [key |-> IF Len(row) >= fmt.key_col THEN row[fmt.key_col] ELSE NoneV,
          val |-> IF Len(row) >= fmt.val_col THEN row[fmt.val_col] ELSE NoneV,
          label |-> IF Len(row) >= fmt.label_col THEN row[fmt.label_col] ELSE NoneV]

\* the state of the loop of lines 498-569: the mapping d and current_group
LoopState(m, current_group) == [d |-> m, current_group |-> current_group]

\* d[key] = value
Assign(m, key, value) == (key :> value) @@ m

\* current_group = norm; continue
EnterGroup(st, norm) == [st EXCEPT !.current_group = KeyText(norm)]

\* if key is None: continue; else d[str(key)] = the amount of val
\* (lines 526-531 and 564-569)
AssignAmount(key, val, st) ==
  IF key.t = "none" THEN st
  ELSE [st EXCEPT !.d = Assign(st.d, Join(str(key)), CellAmount(val))]

\* lines 510-531, for a label that is not None
ScanSimpleLabel(norm, val, maps, st) ==
  IF norm \in maps.group_names_norm /\ IsBlank(val) THEN EnterGroup(st, norm)
  ELSE AssignAmount(LookupLabel(maps, norm, st.current_group), val, st)

\* what a row of the simple format does to the loop state, lines 504-531
ScanSimpleRow(c, maps, st) ==
  IF c.label.t = "none" THEN st
  ELSE ScanSimpleLabel(Norm(str(c.label)), c.val, maps, st)

\* lines 538-542: the row names a group and carries neither value nor key
IsGroupHeader(c, names) ==
  /\ c.label.t # "none"
  /\ IsBlank(c.val)
  /\ IsBlank(c.key)
  /\ Norm(str(c.label)) \in names

\* label, val = _pick_label_value(row)
Picked(c, picked) == [c EXCEPT !.label = picked.label, !.val = picked.value]

\* lines 543-545: label and value are inferred from the row when it has no
\* key and lacks the label or the value
Inferred(row, c) ==
  IF c.key.t = "none" /\ (c.label.t = "none" \/ IsBlank(c.val))
    THEN Picked(c, pick_label_value(row)) ELSE c

\* lines 549-556 for the normalised label
MappedLabel(maps, norm, current_group) ==
  LookupAlias(maps, norm, LookupLabel(maps, norm, current_group))

\* lines 546-563: the key of the row, from its label when the key is None
RowKey(c, maps, current_group) ==
  IF c.key.t # "none" THEN c.key
  ELSE IF c.label.t = "none" THEN NoneV
  ELSE MappedLabel(maps, Norm(str(c.label)), current_group)

\* lines 543-569
ScanDetailedCells(c, maps, st) ==
  AssignAmount(RowKey(c, maps, st.current_group), c.val, st)

\* what a row of the detailed format does to the loop state, lines 534-569
ScanDetailedRow(row, c, maps, st) ==
  IF IsGroupHeader(c, maps.group_names_norm) THEN EnterGroup(st, Norm(str(c.label)))
  ELSE ScanDetailedCells(Inferred(row, c), maps, st)

\* the body of the loop of lines 498-569: nothing for an empty row
ScanRow(row, fmt, maps, st) ==
  IF row = <<>> THEN st
  ELSE IF fmt.is_simple_format THEN ScanSimpleRow(RowCells(row, fmt), maps, st)
  ELSE ScanDetailedRow(row, RowCells(row, fmt), maps, st)

\* FirstDataRow that leaves out the row below the header
FirstDataRowAfterNext(header_row_idx) == header_row_idx + 2

\* ws.iter_rows(min_row=header_row_idx + 1)
FirstDataRow(header_row_idx) == header_row_idx + 1

RECURSIVE ScanRows(_, _, _, _, _, _)
\* the loop of lines 498-569 over the rows lo..hi, in row order: the loop
\* over the first half of the rows and then, from the state half it
\* leaves, the loop over the rest
ScanRows(rows, lo, hi, fmt, maps, st) ==
  IF lo > hi THEN st
  ELSE IF lo = hi THEN ScanRow(rows[lo], fmt, maps, st)
  ELSE CHOOSE last \in
         { ScanRows(rows, ((lo + hi) \div 2) + 1, hi, fmt, maps, half) :
             half \in {ScanRows(rows, lo, (lo + hi) \div 2, fmt, maps, st)} } : TRUE

\* the rows below the header, to max_row, read into the mapping meta
ScanSheet(rows, fmt, meta, maps) ==
  ScanRows(rows, FirstDataRow(fmt.header_row_idx), Len(rows), fmt, maps,
           LoopState(meta, NoneV)).d

\* load_from_excel(path) of the workbook at path
load_from_excel(wb) ==
  ScanSheet(wb[1].rows, DetectFormat(wb[1].rows), LoadMeta(wb), LabelMaps)

----------------------------------------------------------------------------
\* Inputs of the core functions: the bounded set of flat entry mappings.

\* at most this many amount entries in an input mapping
MaxEntries == 2

\* a key of every section list (two of the equity list, the second one
\* odenmisSermaye), the contra-asset key, and "kasa", a key the console
\* prompts for
InputKeys ==
  {DONEN_KEYS[1], DURAN_KEYS[1], KV_KEYS[1], UV_KEYS[1], OZ_KEYS[1], OZ_KEYS[2],
   "birikmiAmort", "kasa"}

\* -100.00, 0, 0.01, 500.00, 1000.00
InputAmounts == {-10000, 0, 1, 50000, 100000}

\* an amount, or a text that is no number
InputValues == {Num(a) : a \in InputAmounts} \cup {Str(<<"a", "b", "c">>)}

\* the two text entries: absent, a blank name, or a name and a date
InputInfos ==
  { <<>>,
    [k \in {"isletmeAdi"} |-> Str(<<" ">>)],
    [k \in {"isletmeAdi", "bilancoTarihi"} |->
       IF k = "isletmeAdi" THEN Str(<<"A", "C", "M", "E">>)
       ELSE Str(<<"2", "0", "2", "4", "-", "1", "2", "-", "3", "1">>)] }

InputMappings ==
  UNION { UNION { { f @@ info : f \in [S -> InputValues] } : info \in InputInfos }
          : S \in { T \in SUBSET InputKeys : Cardinality(T) <= MaxEntries } }

RECURSIVE Perms(_)
\* the sequences that enumerate the set S once
Perms(S) ==
  IF S = {} THEN {<<>>}
  ELSE UNION { { <<x>> \o p : p \in Perms(S \ {x}) } : x \in S }

\* the two text entries, in the order every producer of a mapping inserts
\* them: before the amounts (src lines 73-75, 380-383, 829)
InfoKeys == <<"isletmeAdi", "bilancoTarihi">>

\* the orders in which d.items() can enumerate the mapping: the text entries
\* first, the amount entries in any insertion order
ItemOrders(m) ==
  { SelectSeq(InfoKeys, LAMBDA k : k \in DOMAIN m) \o p :
      p \in Perms(DOMAIN m \ {"isletmeAdi", "bilancoTarihi"}) }

----------------------------------------------------------------------------
\* The core as called directly: one call per step on the mapping d.

NoTotals == [donen |-> ZeroTotal, duran |-> ZeroTotal, kv |-> ZeroTotal,
             uv |-> ZeroTotal, oz |-> ZeroTotal]

\* the total labels before the form exists
NoDisplay == [aktif_top_val |-> <<>>, pasif_top_val |-> <<>>, fg |-> ""]

\* no adapter runs: the core is called directly
NoAdapter ==
  /\ status = "core"
  /\ vars_map = <<>>
  /\ display = NoDisplay
  /\ json_files = <<>>
  /\ mongo = <<>>
  /\ written = {}
  /\ output = <<>>
  /\ calls = <<>>

\* no document is built yet
NoDocument == <<>>

InitEngine ==
  /\ d \in InputMappings
  /\ d_items \in ItemOrders(d)
  /\ op = "none"
  /\ errors = <<>>
  /\ totals = NoTotals
  /\ workbook = NoWorkbook
  /\ loaded = <<>>
  /\ document = NoDocument
  /\ NoAdapter

\* errors = validate(d)
CallValidate ==
  /\ op = "none"
  /\ errors' = validate(d, d_items)
  /\ op' = "validate"
  /\ UNCHANGED <<d, d_items, totals, workbook, loaded, document, adapterVars>>

\* the five aggregation functions applied to d
CallAggregate ==
  /\ op = "none"
  /\ totals' = [donen |-> sum_donen_varliklar(d), duran |-> sum_duran_varliklar(d),
                kv |-> sum_kv_yabanci_kaynaklar(d), uv |-> sum_uv_yabanci_kaynaklar(d),
                oz |-> sum_oz_kaynaklar(d)]
  /\ op' = "aggregate"
  /\ UNCHANGED <<d, d_items, errors, workbook, loaded, document, adapterVars>>

NextEngine == CallValidate \/ CallAggregate

SpecEngine == InitEngine /\ [][NextEngine]_vars

\* errors = validate(d) once more, on the mapping as the first call left it
CallValidateAgain ==
  /\ op = "validate"
  /\ errors' = validate(d, d_items)
  /\ op' = "validate_again"
  /\ UNCHANGED <<d, d_items, totals, workbook, loaded, document, adapterVars>>

NextRepeat == CallValidate \/ CallValidateAgain

SpecRepeat == InitEngine /\ [][NextRepeat]_vars

----------------------------------------------------------------------------
\* The spreadsheet writer and reader as called directly.

\* save_to_excel(path, d)
CallSaveExcel ==
  /\ op = "none"
  /\ workbook' = save_to_excel(d)
  /\ op' = "save_to_excel"
  /\ UNCHANGED <<d, d_items, errors, totals, loaded, document, adapterVars>>

\* loaded = load_from_excel(path)
CallLoadExcel ==
  /\ op = "save_to_excel"
  /\ loaded' = load_from_excel(workbook)
  /\ op' = "load_from_excel"
  /\ UNCHANGED <<d, d_items, errors, totals, workbook, document, adapterVars>>

NextExcel == CallSaveExcel \/ CallLoadExcel

\* the keys of the line items: the five key lists
LineItemKeys == DONEN_KEYS \o DURAN_KEYS \o KV_KEYS \o UV_KEYS \o OZ_KEYS

\* a different amount under every key: 1.01, 2.02, ...
Numbered(keys) ==
  [k \in {keys[i] : i \in DOMAIN keys} |->
     Num((Scale + 1) * (CHOOSE i \in DOMAIN keys : keys[i] = k))]

\* a sheet with a different amount under every line item
FullSheet ==
  Numbered(LineItemKeys)
  @@ [k \in {"isletmeAdi", "bilancoTarihi"} |->
        IF k = "isletmeAdi" THEN Str(<<"A", "C", "M", "E">>)
        ELSE Str(<<"2", "0", "2", "4", "-", "1", "2", "-", "3", "1">>)]

\* the mappings written to a spreadsheet: those over a current-asset key,
\* odenmisSermaye and "kasa", and the full sheet
ExcelMappings ==
  {m \in InputMappings :
     DOMAIN m \subseteq {DONEN_KEYS[1], OZ_KEYS[2], "kasa", "isletmeAdi", "bilancoTarihi"}}
  \cup {FullSheet}

\* the keys of a mapping in the order of the form's fields, "kasa" last
KeyOrder(m) ==
  SelectSeq(InfoKeys \o LineItemKeys \o <<"kasa">>, LAMBDA k : k \in DOMAIN m)

InitExcel ==
  /\ d \in ExcelMappings
  /\ d_items = KeyOrder(d)
  /\ op = "none"
  /\ errors = <<>>
  /\ totals = NoTotals
  /\ workbook = NoWorkbook
  /\ loaded = <<>>
  /\ document = NoDocument
  /\ NoAdapter

SpecExcel == InitExcel /\ [][NextExcel]_vars

----------------------------------------------------------------------------
\* The spreadsheet reader called on sheets that save_to_excel did not write:
\* the first sheet of the workbook is made of the rows of a layout (a title
\* or header row, or none) and of data rows placed at the layout's columns.

\* at most this many data rows in a sheet made of the rows of InputRows
MaxRows == 2

\* the fields of the schema, of all groups
AllFields ==
  UNION { {AllGroups[i].fields[j] : j \in DOMAIN AllGroups[i].fields}
          : i \in DOMAIN AllGroups }

\* the label the schema gives to a key
LabelOf(key) == (CHOOSE f \in AllFields : FieldKey(f) = key).label

\* the names of the two groups of liabilities and the label they share
KVGroup == SECTION_FIELDS.PASIF[1].group
UVGroup == SECTION_FIELDS.PASIF[2].group
DigerBorclar == LabelOf("digerBorclarKV")

\* a label that is only the source of an alias (line 459), and one that is
\* neither a label of the schema nor an alias
AliasOnlyLabel == ALIASES[1].src
UnknownLabel == <<"K", "a", "s", "a">>

\* a data row before it is laid out: its key, label, amount and side cells
GroupRow(group) == [key |-> NoneV, label |-> Str(group), val |-> NoneV, side |-> NoneV]
LabelRow(label, amount) ==
  [key |-> NoneV, label |-> Str(label), val |-> Num(amount), side |-> NoneV]
KeyRow(key, label, amount) ==
  [key |-> Str(<<key>>), label |-> Str(label), val |-> Num(amount),
   side |-> Str(<<"AKTIF">>)]

\* the data rows the sheets are made of: the two group headers, the shared
\* label with two amounts, an alias, an unknown label, and rows with a key
\* cell: a line item, a subtotal marker and a key that is not in the schema
InputRows ==
  { GroupRow(KVGroup), GroupRow(UVGroup),
    LabelRow(DigerBorclar, 1000), LabelRow(DigerBorclar, 2000),
    LabelRow(AliasOnlyLabel, 500), LabelRow(UnknownLabel, 700),
    KeyRow(DONEN_KEYS[1], LabelOf(DONEN_KEYS[1]), 300),
    KeyRow("toplamDonenVarliklar_dummy", LabelOf("toplamDonenVarliklar_dummy"), 900),
    KeyRow("kasa", UnknownLabel, 800) }

\* the sequences of at most n rows of S
RECURSIVE RowSeqs(_, _)
RowSeqs(S, n) ==
  IF n = 0 THEN {<<>>}
  ELSE RowSeqs(S, n - 1)
       \cup UNION { { Append(rs, r) : r \in S }
                    : rs \in {q \in RowSeqs(S, n - 1) : Len(q) = n - 1} }

\* a row without cells in a sheet of the given width
BlankRow(width) == [c \in 1..width |-> NoneV]

\* the title row of a two-column sheet
TitleRow == <<Str(<<"K", "a", "l", "e", "m">>), HeaderRow[5]>>

\* a layout: the rows above the data rows and the columns of the cells of
\* a data row (0: the cell is left out)
Layout(simple, width, top, key_col, val_col, label_col, side_col) ==
  [simple |-> simple, width |-> width, top |-> top, key_col |-> key_col,
   val_col |-> val_col, label_col |-> label_col, side_col |-> side_col]

\* the two-column sheet with and without a title row; the sheet
\* save_to_excel writes; its header with the columns in other orders, with
\* three columns, below a blank and a title row; five columns without header
Layouts ==
  { Layout(TRUE, 2, <<TitleRow>>, 0, 2, 1, 0),
    Layout(TRUE, 2, <<>>, 0, 2, 1, 0),
    Layout(FALSE, 5, <<HeaderRow>>, 4, 5, 3, 1),
    Layout(FALSE, 5,
           <<<<HeaderRow[4], HeaderRow[5], HeaderRow[3], HeaderRow[1], HeaderRow[2]>>>>,
           1, 2, 3, 4),
    Layout(FALSE, 5,
           <<<<HeaderRow[5], HeaderRow[4], HeaderRow[3], HeaderRow[1], HeaderRow[2]>>>>,
           2, 1, 3, 4),
    Layout(FALSE, 3, <<<<HeaderRow[4], HeaderRow[5], HeaderRow[3]>>>>, 1, 2, 3, 0),
    Layout(FALSE, 5, <<BlankRow(5), [BlankRow(5) EXCEPT ![1] = TitleRow[1]], HeaderRow>>,
           4, 5, 3, 1),
    Layout(FALSE, 5, <<>>, 4, 5, 3, 1),
    Layout(FALSE, 5, <<[BlankRow(5) EXCEPT ![1] = TitleRow[1]]>>, 4, 5, 3, 1) }

\* the cells of a data row in a layout
LaidOut(lay, r) ==
  [c \in 1..lay.width |->
     IF c = lay.key_col THEN r.key
     ELSE IF c = lay.val_col THEN r.val
     ELSE IF c = lay.label_col THEN r.label
     ELSE IF c = lay.side_col THEN r.side
     ELSE NoneV]

\* the workbook of one sheet with the data rows rs in the layout lay
SheetOf(lay, rs) ==
  << [title |-> "Sheet",
      rows |-> lay.top \o [i \in DOMAIN rs |-> LaidOut(lay, rs[i])]] >>

\* the spelling of a character, and of a text, without its accent
UnaccentChar(c) ==
  CASE c = "c_cedilla" -> "c" [] c = "C_cedilla" -> "C"
    [] c = "g_breve" -> "g" [] c = "G_breve" -> "G"
    [] c = "i_dotless" -> "i" [] c = "I_dotted" -> "I"
    [] c = "o_diaeresis" -> "o" [] c = "O_diaeresis" -> "O"
    [] c = "s_cedilla" -> "s" [] c = "S_cedilla" -> "S"
    [] c = "u_diaeresis" -> "u" [] c = "U_diaeresis" -> "U"
    [] OTHER -> c

Unaccent(t) == [i \in DOMAIN t |-> UnaccentChar(t[i])]

\* the labels of the line items and the names of the groups, as the schema
\* spells them and without accents
SpelledLabels ==
  {f.label : f \in {g \in AllFields : ~EndsWithDummy(g)}}
  \cup {AllGroups[i].group : i \in DOMAIN AllGroups}

LabelSpellings == SpelledLabels \cup {Unaccent(l) : l \in SpelledLabels}

\* the two rows "Diger Borclar", each below the header row of its group
SharedLabelRows(first, second) ==
  << GroupRow(first), LabelRow(DigerBorclar, IF first = KVGroup THEN 1000 ELSE 2000),
     GroupRow(second), LabelRow(DigerBorclar, IF second = KVGroup THEN 1000 ELSE 2000) >>

\* the row sequences of the sheets: those of at most MaxRows rows of
\* InputRows, a single row for every spelling of a label, and the two
\* shared labels in both orders of their groups
InputRowSeqs ==
  RowSeqs(InputRows, MaxRows)
  \cup { <<LabelRow(l, 100)>> : l \in LabelSpellings }
  \cup { SharedLabelRows(KVGroup, UVGroup), SharedLabelRows(UVGroup, KVGroup) }

InputSheets == { SheetOf(lay, rs) : lay \in Layouts, rs \in InputRowSeqs }

InitSheet ==
  /\ d = <<>>
  /\ d_items = <<>>
  /\ op = "none"
  /\ errors = <<>>
  /\ totals = NoTotals
  /\ workbook \in InputSheets
  /\ loaded = <<>>
  /\ document = NoDocument
  /\ NoAdapter

\* loaded = load_from_excel(path) of a file that is there
CallLoadFile ==
  /\ op = "none"
  /\ workbook # NoWorkbook
  /\ loaded' = load_from_excel(workbook)
  /\ op' = "load_from_excel"
  /\ UNCHANGED <<d, d_items, errors, totals, workbook, document, adapterVars>>

NextSheet == CallLoadFile

SpecSheet == InitSheet /\ [][NextSheet]_vars

----------------------------------------------------------------------------
\* Document Builder: build_mongo_like_document, src lines 225-309.  A
\* document is a record; a line item holds the value of the mapping.

\* the line items of the five sections of the document, lines 246-293
DocDonenKeys ==
  <<"kasa", "bankalar", "alicilar", "alacakSenetleri", "verilenDepozito",
    "digerAlacaklar", "ticariMallar", "yariMamul", "mamul", "digerDonenVarliklar">>

DocDuranKeys ==
  <<"ticariAlacaklar", "istirakler", "bagliOrtakliklar", "arazi", "binalar",
    "tesisatMakineler", "demirbaslar", "tasitlar", "birikmiAmort",
    "digerDuranVarliklar">>

DocKvKeys ==
  <<"bankKredileri", "saticilar", "borcSenetleri", "digerBorclar", "odenecekVergiler">>

DocUvKeys == <<"uzunVadeBankKredileri", "tahviller", "uzunVadeBorclar">>

DocOzKeys ==
  <<"odenmisSermaye", "sermayeYedekleri", "karYedekleri", "gecmisYilKarlari",
    "donemNetKari">>

\* {key: d.get(key, 0) for the keys of the section, "toplam": toplam}
DocSection(m, keys, toplam) ==
  [k \in {keys[i] : i \in DOMAIN keys} \cup {"toplam"} |->
     IF k = "toplam" THEN Num(toplam) ELSE Get(m, k, Num(0))]

\* f"{x:.2f}" of (x / aktif_toplam * 100) if aktif_toplam != 0 else 0.0
PercentOf(x, aktif_toplam) ==
  IF aktif_toplam = 0 THEN FormatRatio(FALSE, 0, 1)
  ELSE FormatRatio((x < 0 /\ aktif_toplam > 0) \/ (x >= 0 /\ aktif_toplam < 0),
                   Abs(x) * 100, Abs(aktif_toplam))

\* f"{likidite_orani:.2f}"
FormatLikidite(likidite_orani) ==
  FormatRatio(likidite_orani.neg, likidite_orani.num, likidite_orani.den)

\* Dogrulama that tells a list with a critical finding from one of warnings
DogrulamaBySeverity(errs) ==
  [durumu |-> IF Len(errs) = 0 THEN "basarili"
              ELSE IF \E i \in DOMAIN errs : errs[i].tip = "kritik" THEN "hatali"
              ELSE "uyarilarla",
   hatalar |-> errs]

\* "dogrulama", lines 304-307
Dogrulama(errs) ==
  [durumu |-> IF Len(errs) = 0 THEN "basarili" ELSE "uyarilarla",
   hatalar |-> errs]

\* the document of lines 238-308 over the totals of lines 226-232
Document(m, errs, now, donen, duran, kv, uv, oz) ==
  [_id |-> NoneV,
   isletmeBilgileri |-> [ad |-> Get(m, "isletmeAdi", Str(<<>>)),
                         tarih |-> Get(m, "bilancoTarihi", Str(<<>>))],
   aktif |-> [donenVarliklar |-> DocSection(m, DocDonenKeys, donen),
              duranVarliklar |-> DocSection(m, DocDuranKeys, duran),
              toplam |-> Num(donen + duran)],
   pasif |-> [kisaVadeliYabanciKaynaklar |-> DocSection(m, DocKvKeys, kv),
              uzunVadeliYabanciKaynaklar |-> DocSection(m, DocUvKeys, uv),
              ozKaynaklar |-> DocSection(m, DocOzKeys, oz),
              toplam |-> Num(kv + uv + oz)],
   rasyolar |-> [likiditeOrani |-> FormatLikidite(LikiditeOrani(donen, kv)),
                 ozkaynaklarOrani |-> PercentOf(oz, donen + duran),
                 borcOrani |-> PercentOf(kv + uv, donen + duran)],
   kayitTarihi |-> now,
   dogrulama |-> Dogrulama(errs)]

\* now is the text of datetime.now().isoformat()
build_mongo_like_document(m, errs, now) ==
  Document(m, errs, now,
           sum_donen_varliklar(m).total, sum_duran_varliklar(m).total,
           sum_kv_yabanci_kaynaklar(m).total, sum_uv_yabanci_kaynaklar(m).total,
           sum_oz_kaynaklar(m).total)

----------------------------------------------------------------------------
\* The database writer: save_to_mongo, src lines 312-338.  The collection is
\* the sequence of its documents in insertion order; an identifier is an
\* integer, a text or None.

\* an int
IntV(n) == [t |-> "int", n |-> n, s |-> <<>>]

\* .limit(200)
IdScanLimit == 200

\* a comes before b in sort("_id", -1): a text sorts above every number, a
\* number above None, the larger integer first
SortsBefore(a, b) ==
  \/ a.t = "str" /\ b.t # "str"
  \/ a.t = "int" /\ b.t = "none"
  \/ a.t = "int" /\ b.t = "int" /\ a.n > b.n

\* _compute_next_id(), lines 319-330: the first integer among the first
\* IdScanLimit identifiers in descending order, plus 1; 1 when none is found
compute_next_id(coll) ==
  LET first == {i \in DOMAIN coll :
                  /\ coll[i]["_id"].t = "int"
                  /\ \A j \in DOMAIN coll :
                       coll[j]["_id"].t = "int" => coll[j]["_id"].n <= coll[i]["_id"].n}
      before(i) == {j \in DOMAIN coll : SortsBefore(coll[j]["_id"], coll[i]["_id"])}
  IN IF \E i \in first : Cardinality(before(i)) < IdScanLimit
     THEN coll[CHOOSE i \in first : TRUE]["_id"].n + 1
     ELSE 1

\* payload = dict(doc); the identifier is computed unless doc has an int
Payload(doc, coll) ==
  IF doc["_id"].t = "int" THEN doc
  ELSE ("_id" :> IntV(compute_next_id(coll))) @@ doc

\* MongoCalls of a writer that tries the insert a second time
MongoCallsRetried(doc) ==
  <<"MongoClient">>
  \o (IF doc["_id"].t = "int" THEN <<>> ELSE <<"find">>)
  \o <<"insert_one", "insert_one", "close">>

\* the calls of save_to_mongo to the database, lines 315-338: the client,
\* the scan of _compute_next_id unless the doc has an int, one
\* insert_one, and client.close() in the finally clause
MongoCalls(doc) ==
  <<"MongoClient">>
  \o (IF doc["_id"].t = "int" THEN <<>> ELSE <<"find">>)
  \o <<"insert_one", "close">>

\* save_to_mongo(doc, ...): [raised, coll, inserted_id].  up tells whether
\* the server answers; insert_one raises on an identifier already in use
save_to_mongo(doc, coll, up) ==
  LET payload == Payload(doc, coll)
  IN IF ~up \/ \E i \in DOMAIN coll : coll[i]["_id"] = payload["_id"]
     THEN [raised |-> TRUE, coll |-> coll, inserted_id |-> <<>>,
           calls |-> MongoCalls(doc)]
     ELSE [raised |-> FALSE, coll |-> Append(coll, payload),
           inserted_id |-> NatDigits(payload["_id"].n),
           calls |-> MongoCalls(doc)]

----------------------------------------------------------------------------
\* The adapters: the console run (cli_main, src lines 1171-1221) and the
\* form session (create_gui, lines 735-1168).  A step of the model is the
\* program's start, one edit of a form field or one button handler, run to
\* its end.  d and errors hold the mapping and the findings of the step,
\* written and output what the step stored and showed.

\* at most this many documents in the collection
MaxDocs == 1

\* the readings of the clock: isoformat(), strftime("%Y-%m-%d") and
\* int(timestamp())
ClockReadings ==
  { [iso |-> "2024-12-31T10:00:00",
     date |-> <<"2", "0", "2", "4", "-", "1", "2", "-", "3", "1">>,
     epoch |-> "1735639200"] }

\* something a step shows: a message box (via, title, text), a line of the
\* log panel (via "log", its kind, the message) or a printed line
Shown(via, head, text) == [via |-> via, head |-> head, text |-> text]

\* e['tip'].upper()
TipUpper(tip) == IF tip = "kritik" THEN "KRITIK" ELSE "UYARI"

\* [f"- {e['tip'].upper()}: {e['mesaj']}" for e in errs]
FindingLines(errs) ==
  [i \in 1..Len(errs) |-> <<"- ", TipUpper(errs[i].tip), ": ">> \o errs[i].mesaj]

\* kritik that compares the tip with its upper-case spelling
kritikUpperCase(errs) == SelectSeq(errs, LAMBDA e : e.tip = "KRITIK")

\* [e for e in errs if e.get("tip") == "kritik"]
kritik(errs) == SelectSeq(errs, LAMBDA e : e.tip = "kritik")

\* the keys collect_bilanco_data prompts an amount for, in its order
CollectKeys == DocDonenKeys \o DocDuranKeys \o DocKvKeys \o DocUvKeys \o DocOzKeys

\* the line typed at the prompt of key: an empty line when none is given
Answer(answers, key) == IF key \in DOMAIN answers THEN answers[key] ELSE <<>>

\* prompt_str: raw.strip() if raw.strip() != "" else default
prompt_str(raw, default) == IF Strip(raw) # <<>> THEN Strip(raw) ELSE default

\* prompt_num: parse_float(raw) if raw.strip() != "" else float(default)
prompt_num(raw, default) == IF Strip(raw) # <<>> THEN parse_float(raw) ELSE default

collect_bilanco_data(answers, today) ==
  [k \in {"isletmeAdi", "bilancoTarihi"} \cup {CollectKeys[i] : i \in DOMAIN CollectKeys} |->
     IF k = "isletmeAdi" THEN Str(prompt_str(Answer(answers, k), <<>>))
     ELSE IF k = "bilancoTarihi" THEN Str(prompt_str(Answer(answers, k), today))
     ELSE Num(prompt_num(Answer(answers, k), 0))]

\* the lines typed in a console run: nothing; a balanced sheet; the same
\* with a decimal comma and blanks; cash against capital; negative capital
CliAnswers ==
  { <<>>,
    [k \in {"isletmeAdi", "digerDonenVarliklar", "odenmisSermaye"} |->
       IF k = "isletmeAdi" THEN <<"A", "C", "M", "E">> ELSE <<"1", "0", "0", "0">>],
    [k \in {"isletmeAdi", "digerDonenVarliklar", "odenmisSermaye"} |->
       IF k = "isletmeAdi" THEN <<" ", "A", "C", "M", "E", " ">>
       ELSE IF k = "odenmisSermaye" THEN <<"1", "0", "0", "0", ".", "5">>
       ELSE <<" ", "1", " ", "0", "0", "0", ",", "5", "0">>],
    [k \in {"isletmeAdi", "kasa", "odenmisSermaye"} |->
       IF k = "isletmeAdi" THEN <<"A", "C", "M", "E">> ELSE <<"1", "0", "0", "0">>],
    [k \in {"isletmeAdi", "odenmisSermaye"} |->
       IF k = "isletmeAdi" THEN <<"A", "C", "M", "E">> ELSE <<"-", "1", "0", "0">>] }

\* the fields of the form, in the order vars_map holds them (line 829 and
\* the loop of lines 830-836)
FieldOrder == InfoKeys \o LineItemKeys

\* the variables of the fields: an empty name, today's date, "0"
FieldVars(order, today) ==
  [k \in {order[i] : i \in DOMAIN order} |->
     IF k = "isletmeAdi" THEN <<>>
     ELSE IF k = "bilancoTarihi" THEN today
     ELSE <<"0">>]

\* vars_map as create_gui builds it
InitialFields(today) == FieldVars(FieldOrder, today)

gui_collect_data(vm) ==
  [k \in DOMAIN vm |->
     IF k \in {"isletmeAdi", "bilancoTarihi"} THEN Str(vm[k])
     ELSE Num(parse_float(vm[k]))]

\* the texts of the two total labels and their colour, lines 1153-1158
TotalLabels(aktif, pasif) ==
  [aktif_top_val |-> <<format_tl(aktif), " TL">>,
   pasif_top_val |-> <<format_tl(pasif), " TL">>,
   fg |-> IF Abs(aktif - pasif) <= Tolerance THEN "#15803d" ELSE "#b91c1c"]

\* the two total labels after refresh() on the mapping m, lines 1149-1160
refresh(m) ==
  TotalLabels(sum_donen_varliklar(m).total + sum_duran_varliklar(m).total,
              sum_kv_yabanci_kaynaklar(m).total + sum_uv_yabanci_kaynaklar(m).total
                + sum_oz_kaynaklar(m).total)

\* the fields a user edits in the model, and the texts typed into them
EditTexts ==
  [k \in {DONEN_KEYS[1], "odenmisSermaye"} |->
     IF k = "odenmisSermaye"
     THEN {<<"0">>, <<"1", "0", "0", "0">>, <<"-", "1", "0", "0">>}
     ELSE {<<"0">>, <<"1", "0", "0", "0">>}]

\* main(): the program has started and has chosen no adapter yet
Init ==
  /\ status = "main"
  /\ d = <<>>
  /\ d_items = <<>>
  /\ op = "none"
  /\ errors = <<>>
  /\ totals = NoTotals
  /\ workbook = NoWorkbook
  /\ loaded = <<>>
  /\ document = NoDocument
  /\ calls = <<>>
  /\ vars_map = <<>>
  /\ display = NoDisplay
  /\ json_files = <<>>
  /\ mongo = <<>>
  /\ written = {}
  /\ output = <<>>

\* create_gui() up to root.mainloop(): the fields, then refresh()
CreateGui ==
  /\ status = "main"
  /\ \E now \in ClockReadings : vars_map' = InitialFields(now.date)
  /\ d' = gui_collect_data(vars_map')
  /\ d_items' = FieldOrder
  /\ display' = refresh(d')
  /\ status' = "mainloop"
  /\ op' = "create_gui"
  /\ errors' = <<>>
  /\ document' = NoDocument
  /\ written' = {}
  /\ output' = <<>>
  /\ calls' = <<>>
  /\ UNCHANGED <<totals, workbook, loaded, json_files, mongo>>

\* the user changes the text of a field; the trace of the variable runs
\* refresh()
SetField ==
  /\ status = "mainloop"
  /\ \E key \in DOMAIN EditTexts : \E text \in EditTexts[key] :
       /\ vars_map[key] # text
       /\ vars_map' = [vars_map EXCEPT ![key] = text]
  /\ d' = gui_collect_data(vars_map')
  /\ d_items' = FieldOrder
  /\ display' = refresh(d')
  /\ op' = "set"
  /\ errors' = <<>>
  /\ document' = NoDocument
  /\ written' = {}
  /\ output' = <<>>
  /\ calls' = <<>>
  /\ UNCHANGED <<status, totals, workbook, loaded, json_files, mongo>>

\* the button "Dogrula"
DoValidate ==
  /\ status = "mainloop"
  /\ d' = gui_collect_data(vars_map)
  /\ d_items' = FieldOrder
  /\ errors' = validate(d', d_items')
  /\ op' = "do_validate"
  /\ document' = NoDocument
  /\ calls' = <<>>
  /\ output' =
       IF errors' = <<>>
       THEN << Shown("messagebox.showinfo", "Dogrulama",
                     <<"Dogrulama basarili, hata bulunamadi.">>),
               Shown("log", "ok", <<"Dogrulama basarili.">>) >>
       ELSE << Shown("messagebox.showwarning", "Dogrulama Sonuclari",
                     FindingLines(errors')),
               Shown("log",
                     IF \E i \in 1..Len(errors') : errors'[i].tip = "kritik"
                     THEN "err" ELSE "warn",
                     <<"Dogrulama uyarilari/hatalari var.">>) >>
  /\ written' = {}
  /\ UNCHANGED <<status, totals, workbook, loaded, vars_map, display, json_files, mongo>>

\* what a save handler shows when it refuses: store names the target
Refusal(store, errs) ==
  << Shown("messagebox.showerror", "Kritik Hatalar",
           FindingLines(errs) \o <<"", "Lutfen duzeltip tekrar deneyin.">>),
     Shown("log", "err", <<store, " kaydedilmedi: kritik hatalar var.">>) >>

\* the button "Kaydet (JSON)"; writable tells whether the file can be written
DoSaveJson ==
  /\ status = "mainloop"
  /\ d' = gui_collect_data(vars_map)
  /\ d_items' = FieldOrder
  /\ errors' = validate(d', d_items')
  /\ op' = "do_save_json"
  /\ \E now \in ClockReadings, writable \in BOOLEAN :
       LET filename == "bilanco_tablolari_" \o now.epoch \o ".json"
       IN /\ document' = IF kritik(errors') # <<>> THEN NoDocument
                         ELSE build_mongo_like_document(d', errors', now.iso)
          /\ calls' = IF kritik(errors') # <<>> THEN <<>> ELSE <<"open">>
          /\ IF kritik(errors') # <<>>
             THEN /\ output' = Refusal("JSON", errors')
                  /\ written' = {}
                  /\ UNCHANGED json_files
             ELSE IF writable
             THEN /\ json_files' = (filename :> document') @@ json_files
                  /\ written' = {"json"}
                  /\ output' = << Shown("messagebox.showinfo", "Kayit Basarili",
                                        <<"JSON dosyasi yazildi:", filename>>),
                                  Shown("log", "ok", <<"JSON kaydedildi: ", filename>>) >>
             ELSE /\ output' = << Shown("messagebox.showerror", "Kayit Hatasi",
                                        <<"Dosya yazilamadi: ", "ex">>),
                                  Shown("log", "err", <<"JSON kaydi hatasi: ", "ex">>) >>
                  /\ written' = {}
                  /\ UNCHANGED json_files
  /\ UNCHANGED <<status, totals, workbook, loaded, vars_map, display, mongo>>

\* the button "Kaydet (Excel)"; chosen tells whether the file dialog
\* returns a path, writable whether save_to_excel returns
DoSaveExcel ==
  /\ status = "mainloop"
  /\ d' = gui_collect_data(vars_map)
  /\ d_items' = FieldOrder
  /\ errors' = validate(d', d_items')
  /\ op' = "do_save_excel"
  /\ document' = NoDocument
  /\ \E chosen \in BOOLEAN, writable \in BOOLEAN :
       IF kritik(errors') # <<>>
       THEN /\ output' = Refusal("Excel", errors')
            /\ written' = {}
            /\ calls' = <<>>
            /\ UNCHANGED workbook
       ELSE IF ~chosen
       THEN /\ output' = <<>>
            /\ written' = {}
            /\ calls' = <<>>
            /\ UNCHANGED workbook
       ELSE IF writable
       THEN /\ workbook' = save_to_excel(d')
            /\ written' = {"excel"}
            /\ calls' = <<"wb.save">>
            /\ output' = << Shown("messagebox.showinfo", "Excel",
                                  <<"Excel dosyasi kaydedildi:", "path">>),
                            Shown("log", "ok", <<"Excel kaydedildi: ", "path">>) >>
       ELSE /\ output' = << Shown("messagebox.showerror", "Excel",
                                  <<"Kaydetme hatasi: ", "ex">>),
                            Shown("log", "err", <<"Excel kaydi hatasi: ", "ex">>) >>
            /\ written' = {}
            /\ calls' = <<"wb.save">>
            /\ UNCHANGED workbook
  /\ UNCHANGED <<status, totals, loaded, vars_map, display, json_files, mongo>>

\* lines 1050-1058 of do_save_mongo: saved is what save_to_mongo did
MongoSaved(saved) ==
  /\ calls' = saved.calls
  /\ IF ~saved.raised
     THEN /\ mongo' = saved.coll
          /\ written' = {"mongo"}
          /\ output' = << Shown("messagebox.showinfo", "MongoDB Kayit",
                                <<"MongoDB'ye kaydedildi.", "_id: ">>
                                \o saved.inserted_id),
                          Shown("log", "ok", <<"MongoDB kaydedildi: _id=">>
                                             \o saved.inserted_id) >>
     ELSE /\ output' = << Shown("messagebox.showerror", "MongoDB Hatasi", <<"ex">>),
                          Shown("log", "err", <<"MongoDB hatasi: ", "ex">>) >>
          /\ written' = {}
          /\ UNCHANGED mongo

\* the button "Kaydet (MongoDB)"; up tells whether the server answers
DoSaveMongo ==
  /\ status = "mainloop"
  /\ Len(mongo) < MaxDocs
  /\ d' = gui_collect_data(vars_map)
  /\ d_items' = FieldOrder
  /\ errors' = validate(d', d_items')
  /\ op' = "do_save_mongo"
  /\ \E now \in ClockReadings, up \in BOOLEAN :
       IF kritik(errors') # <<>>
       THEN /\ output' = Refusal("MongoDB", errors')
            /\ written' = {}
            /\ document' = NoDocument
            /\ calls' = <<>>
            /\ UNCHANGED mongo
       ELSE /\ document' = build_mongo_like_document(d', errors', now.iso)
            /\ MongoSaved(save_to_mongo(document', mongo, up))
  /\ UNCHANGED <<status, totals, workbook, loaded, vars_map, display, json_files>>

\* the lines cli_main prints for the findings, lines 1179-1184
PrintFindings(errs) ==
  IF errs # <<>>
  THEN <<Shown("print", "", <<"Dogrulama Sonuclari:">>)>>
       \o [i \in 1..Len(errs) |-> Shown("print", "", FindingLines(errs)[i])]
  ELSE <<Shown("print", "", <<"- Dogrulama basarili, hata bulunamadi.">>)>>

\* the two total lines cli_main prints last, lines 1210-1219
PrintTotals(aktif, pasif) ==
  << Shown("print", "", <<"Aktif Toplami: ", format_tl(aktif), " TL">>),
     Shown("print", "", <<"Pasif Toplami: ", format_tl(pasif), " TL">>) >>

\* f"bilanco_tablolari_{doc['_id']}.json"
FileName(doc) == "bilanco_tablolari_" \o Join(str(doc["_id"])) \o ".json"

\* the lines printed after the file is written, lines 1194-1196
PrintSaved(doc) ==
  << Shown("print", "", <<"Bilanco basariyla kaydedildi!">>),
     Shown("print", "", <<"Belge ID: ">> \o <<Join(str(doc["_id"]))>>),
     Shown("print", "", <<"Cikti Dosyasi: ", FileName(doc)>>) >>

\* the line printed by the attempt to save to the database, lines 1198-1208
PrintMongo(mongo_flag, saved) ==
  IF ~mongo_flag THEN <<>>
  ELSE IF ~saved.raised
  THEN <<Shown("print", "", <<"MongoDB'ye kaydedildi: _id=">> \o saved.inserted_id)>>
  ELSE <<Shown("print", "", <<"MongoDB kaydetme hatasi: ", "ex">>)>>

\* cli_main from line 1178 on: errs are the findings, doc is the document
\* of line 1190, saved what save_to_mongo does when it is called, totals
\* the two lines printed last
CliFinish(errs, doc, saved, totals_printed, mongo_flag, writable) ==
  IF Len(kritik(errs)) > 0
  THEN /\ output' = PrintFindings(errs)
                    \o <<Shown("print", "", <<"Kritik hatalar var! Lutfen duzeltip tekrar deneyin.">>)>>
       /\ written' = {}
       /\ status' = "return 1"
       /\ document' = NoDocument
       /\ calls' = <<>>
       /\ UNCHANGED <<json_files, mongo>>
  ELSE IF ~writable
  THEN /\ output' = PrintFindings(errs)
       /\ written' = {}
       /\ status' = "raised"
       /\ document' = doc
       /\ calls' = <<"open">>
       /\ UNCHANGED <<json_files, mongo>>
  ELSE /\ json_files' = (FileName(doc) :> doc) @@ json_files
       /\ status' = "return 0"
       /\ document' = doc
       /\ calls' = <<"open">> \o (IF mongo_flag THEN saved.calls ELSE <<>>)
       /\ IF mongo_flag /\ ~saved.raised
          THEN /\ mongo' = saved.coll
               /\ written' = {"json", "mongo"}
          ELSE /\ written' = {"json"}
               /\ UNCHANGED mongo
       /\ output' = PrintFindings(errs) \o PrintSaved(doc)
                    \o PrintMongo(mongo_flag, saved) \o totals_printed

\* cli_main from line 1178 on, with the outcome of save_to_mongo(doc, ...)
CliSave(errs, doc, totals_printed, mongo_flag, writable, up) ==
  CliFinish(errs, doc, save_to_mongo(doc, mongo, up), totals_printed,
            mongo_flag, writable)

\* the console run, from the prompts to the return.  answers are the lines
\* typed, mongo_flag is --mongo; writable and up as above.  A failing
\* open() is caught nowhere: the run ends with the exception
CliMain ==
  /\ status = "main"
  /\ op' = "cli_main"
  /\ \E now \in ClockReadings, answers \in CliAnswers :
       /\ d' = collect_bilanco_data(answers, now.date)
       /\ d_items' = InfoKeys \o CollectKeys
       /\ errors' = validate(d', d_items')
       /\ \E mongo_flag \in BOOLEAN, writable \in BOOLEAN, up \in BOOLEAN :
            CliSave(errors', build_mongo_like_document(d', errors', now.iso),
                    PrintTotals(sum_donen_varliklar(d').total
                                  + sum_duran_varliklar(d').total,
                                sum_kv_yabanci_kaynaklar(d').total
                                  + sum_uv_yabanci_kaynaklar(d').total
                                  + sum_oz_kaynaklar(d').total),
                    mongo_flag, writable, up)
  /\ UNCHANGED <<totals, workbook, loaded, vars_map, display>>

\* vars_map[key].set(str(section.get(key))) for the keys of the list that the
\* section of the document and the form both hold (lines 916-922, 933-941)
SetFromSection(vm, section, keys) ==
  [k \in DOMAIN vm |->
     IF k \in {keys[i] : i \in DOMAIN keys} /\ k \in DOMAIN section
     THEN str(section[k]) ELSE vm[k]]

\* the two text fields set from isletmeBilgileri, lines 906-910
SetInfo(vm, info) ==
  [k \in DOMAIN vm |->
     IF k = "isletmeAdi" THEN str(info.ad)
     ELSE IF k = "bilancoTarihi" THEN str(info.tarih)
     ELSE vm[k]]

\* the fields after a document is loaded into the form, lines 904-945 of
\* do_open_json and 1091-1124 of do_open_mongo
PopulateFromDocument(vm, doc) ==
  SetFromSection(
    SetFromSection(
      SetFromSection(
        SetFromSection(
          SetFromSection(SetInfo(vm, doc.isletmeBilgileri),
                         doc.aktif.donenVarliklar,
                         DONEN_KEYS \o DURAN_KEYS \o <<"birikmiAmort">>),
          doc.aktif.duranVarliklar, DONEN_KEYS \o DURAN_KEYS \o <<"birikmiAmort">>),
        doc.pasif.kisaVadeliYabanciKaynaklar, KV_KEYS),
      doc.pasif.uzunVadeliYabanciKaynaklar, UV_KEYS),
    doc.pasif.ozKaynaklar, OZ_KEYS)

\* the fields after a load that puts 0 into every amount field the mapping
\* does not hold
FillFieldsOrZero(vm, data) ==
  [k \in DOMAIN vm |-> IF k \in DOMAIN data THEN str(data[k])
                       ELSE IF k \in {"isletmeAdi", "bilancoTarihi"} THEN vm[k]
                       ELSE <<"0">>]

\* the fields after the mapping read from a spreadsheet is filled in, lines
\* 993-1003 of do_open_excel
FillFields(vm, data) ==
  [k \in DOMAIN vm |-> IF k \in DOMAIN data THEN str(data[k]) ELSE vm[k]]

\* what a handler leaves when it returns before it has done anything
NothingDone ==
  /\ output' = <<>>
  /\ calls' = <<>>
  /\ document' = NoDocument
  /\ UNCHANGED <<vars_map, loaded>>

\* the button "Ac (JSON)"; chosen is the file picked in the dialog ("" when
\* the dialog is closed), readable tells whether json.load returns
DoOpenJson ==
  /\ status = "mainloop"
  /\ \E chosen \in DOMAIN json_files \cup {""}, readable \in BOOLEAN :
       IF chosen = "" THEN NothingDone
       ELSE IF ~readable
       THEN /\ output' = << Shown("messagebox.showerror", "Dosya",
                                  <<"JSON okunamadi: ", "ex">>),
                            Shown("log", "err", <<"JSON acma hatasi: ", "ex">>) >>
            /\ calls' = <<"open r">>
            /\ document' = NoDocument
            /\ UNCHANGED <<vars_map, loaded>>
       ELSE /\ vars_map' = PopulateFromDocument(vars_map, json_files[chosen])
            /\ document' = json_files[chosen]
            /\ output' = <<Shown("log", "ok", <<"JSON yuklendi: ", chosen>>)>>
            /\ calls' = <<"open r">>
            /\ UNCHANGED loaded
  /\ d' = gui_collect_data(vars_map')
  /\ d_items' = FieldOrder
  /\ display' = refresh(d')
  /\ op' = "do_open_json"
  /\ errors' = <<>>
  /\ written' = {}
  /\ UNCHANGED <<status, totals, workbook, json_files, mongo>>

\* spreadsheets that the program did not write: one row with a key cell, one
\* row with a label only, in the layout of save_to_excel and in two columns
ForeignWorkbooks ==
  { SheetOf(Layout(FALSE, 5, <<HeaderRow>>, 4, 5, 3, 1),
            <<KeyRow(DONEN_KEYS[1], LabelOf(DONEN_KEYS[1]), 300)>>),
    SheetOf(Layout(TRUE, 2, <<TitleRow>>, 0, 2, 1, 0),
            <<LabelRow(LabelOf("odenmisSermaye"), 300)>>) }

\* the button "Ac (Excel)"; file is the workbook picked in the dialog (none
\* when the dialog is closed), readable tells whether load_from_excel returns
DoOpenExcel ==
  /\ status = "mainloop"
  /\ \E file \in ForeignWorkbooks \cup {workbook}, readable \in BOOLEAN :
       IF file = NoWorkbook THEN NothingDone
       ELSE IF ~readable
       THEN /\ output' = << Shown("messagebox.showerror", "Excel",
                                  <<"Okuma hatasi: ", "ex">>),
                            Shown("log", "err", <<"Excel acma hatasi: ", "ex">>) >>
            /\ calls' = <<"load_workbook">>
            /\ document' = NoDocument
            /\ UNCHANGED <<vars_map, loaded>>
       ELSE /\ loaded' = load_from_excel(file)
            /\ vars_map' = FillFields(vars_map, loaded')
            /\ output' = <<Shown("log", "ok", <<"Excel yuklendi: ", "path">>)>>
            /\ calls' = <<"load_workbook">>
            /\ document' = NoDocument
  /\ d' = gui_collect_data(vars_map')
  /\ d_items' = FieldOrder
  /\ display' = refresh(d')
  /\ op' = "do_open_excel"
  /\ errors' = <<>>
  /\ written' = {}
  /\ UNCHANGED <<status, totals, workbook, json_files, mongo>>

\* what is typed into the dialog that asks for an _id: nothing, blanks, a
\* number
EnteredIds == {<<>>, <<" ">>, <<"1">>, <<" ", "1">>, <<"2">>}

\* find_one(sort=[("kayitTarihi", -1)]): a document with the latest
\* kayitTarihi; the clock of the model has one reading, so every document
\* of the collection is one
FindLatest(coll) == {coll[i] : i \in DOMAIN coll}

\* find_one({"_id": entered.strip()}): the identifier is compared as the
\* text typed
FindById(coll, entered) ==
  {coll[i] : i \in {j \in DOMAIN coll : coll[j]["_id"] = Str(Strip(entered))}}

\* lines 1073-1087 of do_open_mongo: the documents the query can return
QueryDoc(coll, use_latest, entered) ==
  IF use_latest \/ Strip(entered) = <<>> THEN FindLatest(coll)
  ELSE FindById(coll, entered)

\* the two dialogs of do_open_mongo and the answers given, lines 1073-1083
AskedForId(use_latest, entered) ==
  <<Shown("messagebox.askyesno", "MongoDB Ac", IF use_latest THEN <<"yes">> ELSE <<"no">>)>>
  \o (IF use_latest THEN <<>>
      ELSE <<Shown("simpledialog.askstring", "MongoDB Ac", entered)>>)

\* the button "Ac (MongoDB)"; use_latest is the answer to the first dialog,
\* entered the text typed into the second, up tells whether the server
\* answers
DoOpenMongo ==
  /\ status = "mainloop"
  /\ \E use_latest \in BOOLEAN, entered \in EnteredIds, up \in BOOLEAN :
       /\ use_latest => entered = <<>>
       /\ calls' = <<"MongoClient", "find_one", "close">>
       /\ IF ~up
          THEN /\ output' = AskedForId(use_latest, entered)
                            \o << Shown("messagebox.showerror", "MongoDB Ac", <<"ex">>),
                                  Shown("log", "err", <<"MongoDB acma hatasi: ", "ex">>) >>
               /\ document' = NoDocument
               /\ UNCHANGED vars_map
          ELSE IF QueryDoc(mongo, use_latest, entered) = {}
          THEN /\ output' = AskedForId(use_latest, entered)
                            \o <<Shown("messagebox.showwarning", "MongoDB Ac",
                                       <<"Belge bulunamadi.">>)>>
               /\ document' = NoDocument
               /\ UNCHANGED vars_map
          ELSE \E query_doc \in QueryDoc(mongo, use_latest, entered) :
                 /\ vars_map' = PopulateFromDocument(vars_map, query_doc)
                 /\ document' = query_doc
                 /\ output' = AskedForId(use_latest, entered)
                              \o <<Shown("log", "ok", <<"MongoDB belgesi yuklendi.">>)>>
  /\ d' = gui_collect_data(vars_map')
  /\ d_items' = FieldOrder
  /\ display' = refresh(d')
  /\ op' = "do_open_mongo"
  /\ errors' = <<>>
  /\ written' = {}
  /\ UNCHANGED <<status, totals, workbook, loaded, json_files, mongo>>

Next ==
  \/ CreateGui
  \/ SetField
  \/ DoValidate
  \/ DoSaveJson
  \/ DoSaveExcel
  \/ DoSaveMongo
  \/ CliMain

Spec == Init /\ [][Next]_vars

\* the form session with the two buttons of one store: the fields are
\* edited, saved to the store and loaded from it

NextJson == CreateGui \/ SetField \/ DoSaveJson \/ DoOpenJson

SpecJson == Init /\ [][NextJson]_vars

NextOpenExcel == CreateGui \/ SetField \/ DoSaveExcel \/ DoOpenExcel

SpecOpenExcel == Init /\ [][NextOpenExcel]_vars

NextOpenMongo == CreateGui \/ SetField \/ DoSaveMongo \/ DoOpenMongo

SpecOpenMongo == Init /\ [][NextOpenMongo]_vars

----------------------------------------------------------------------------
\* The database writer called on collections of any content: documents with
\* text identifiers (which sort above every number), with integer
\* identifiers and with None.

\* the integer identifiers of the collections are among 1..MaxIntId
MaxIntId == 3

\* n documents with the text identifiers "x1", "x2", ...
TextDocs(n) == [i \in 1..n |-> [_id |-> Str(<<"x">> \o NatDigits(i))]]

\* documents with the integer identifiers of ids, in ascending order
RECURSIVE IntDocs(_)
IntDocs(ids) ==
  IF ids = {} THEN <<>>
  ELSE LET least == CHOOSE n \in ids : \A k \in ids : n <= k
       IN <<[_id |-> IntV(least)]>> \o IntDocs(ids \ {least})

\* the collections: none, one, and around IdScanLimit text identifiers, any
\* integer identifiers, with and without a document whose identifier is None
InputCollections ==
  { TextDocs(n) \o IntDocs(ids) \o nones :
      n \in {0, 1, IdScanLimit - 1, IdScanLimit, IdScanLimit + 1},
      ids \in SUBSET (1..MaxIntId),
      nones \in {<<>>, <<[_id |-> NoneV]>>} }

\* the documents handed to save_to_mongo: without identifier (as
\* build_mongo_like_document makes them), with a text and with an integer
InputDocuments ==
  { [_id |-> NoneV], [_id |-> Str(<<"ACME">>)], [_id |-> IntV(2)] }

InitMongo ==
  /\ d = <<>>
  /\ d_items = <<>>
  /\ op = "none"
  /\ errors = <<>>
  /\ totals = NoTotals
  /\ workbook = NoWorkbook
  /\ loaded = <<>>
  /\ document \in InputDocuments
  /\ status = "core"
  /\ vars_map = <<>>
  /\ display = NoDisplay
  /\ json_files = <<>>
  /\ mongo \in InputCollections
  /\ written = {}
  /\ output = <<>>
  /\ calls = <<>>

\* save_to_mongo(doc, uri, db_name, coll_name): output holds the exception
\* it raised, if any
CallSaveToMongo ==
  /\ op = "none"
  /\ \E up \in BOOLEAN :
       LET saved == save_to_mongo(document, mongo, up)
       IN /\ mongo' = saved.coll
          /\ calls' = saved.calls
          /\ written' = IF saved.raised THEN {} ELSE {"mongo"}
          /\ output' = IF ~saved.raised THEN <<>>
                       ELSE << Shown("raise",
                                     IF up THEN "DuplicateKeyError"
                                     ELSE "ServerSelectionTimeoutError", <<>>) >>
  /\ op' = "save_to_mongo"
  /\ UNCHANGED <<d, d_items, errors, totals, workbook, loaded, document, status,
                 vars_map, display, json_files>>

NextMongo == CallSaveToMongo

SpecMongo == InitMongo /\ [][NextMongo]_vars

----------------------------------------------------------------------------
\* The document builder as called directly, on the bounded mappings and on
\* lists of findings of every mix of severities.

\* the lists of findings handed to build_mongo_like_document: none,
\* warnings only, a critical one only, both
InputFindings ==
  { <<>>, <<NameFinding>>, <<NameFinding, EmptyFinding>>, <<EquityFinding>>,
    <<EquityFinding, NameFinding>> }

InitDocument ==
  /\ d \in InputMappings
  /\ d_items = CHOOSE p \in ItemOrders(d) : TRUE
  /\ op = "none"
  /\ errors \in InputFindings
  /\ totals = NoTotals
  /\ workbook = NoWorkbook
  /\ loaded = <<>>
  /\ document = NoDocument
  /\ NoAdapter

\* document = build_mongo_like_document(d, errors)
CallBuildDocument ==
  /\ op = "none"
  /\ \E now \in ClockReadings : document' = build_mongo_like_document(d, errors, now.iso)
  /\ op' = "build_mongo_like_document"
  /\ UNCHANGED <<d, d_items, errors, totals, workbook, loaded, adapterVars>>

NextDocument == CallBuildDocument

SpecDocument == InitDocument /\ [][NextDocument]_vars

----------------------------------------------------------------------------
\* Reference readings of a mapping, used to state the properties: sums over
\* the key sets of the registry, taken entry by entry.

KeySet(keys) == {keys[i] : i \in 1..Len(keys)}

\* what an entry counts for: the number it holds or reads as, 0 otherwise
RefAmount(m, k) ==
  IF k \in DOMAIN m /\ float(m[k]).ok THEN float(m[k]).n ELSE 0

RECURSIVE RefSumOver(_, _)
RefSumOver(m, K) ==
  IF K = {} THEN 0
  ELSE LET k == CHOOSE x \in K : TRUE
       IN RefAmount(m, k) + RefSumOver(m, K \ {k})

RefSum(m, keys) == RefSumOver(m, KeySet(keys) \cap DOMAIN m)

RefDonen(m) == RefSum(m, DONEN_KEYS)
RefDuran(m) == RefSum(m, DURAN_KEYS) - RefAmount(m, "birikmiAmort")
RefAktif(m) == RefDonen(m) + RefDuran(m)
RefOz(m) == RefSum(m, OZ_KEYS)
RefPasif(m) == RefSum(m, KV_KEYS) + RefSum(m, UV_KEYS) + RefOz(m)

\* the check a finding comes from, read off the literal text of its message
Kind(e) ==
  IF Len(e.mesaj) = 3 /\ e.mesaj[2] = " negatif deger iceriyor: " THEN "negative"
  ELSE IF e.mesaj[1] = "Bilanco dengesizligi: Aktif (" THEN "balance"
  ELSE IF e.mesaj[1] = "Isletme adi bos birakilmamalidir." THEN "name"
  ELSE IF e.mesaj[1] = "Likidite orani dusuk (" THEN "liquidity"
  ELSE IF e.mesaj[1] = "Oz kaynaklar negatif! Isletme mali sikinti icinde olabilir."
    THEN "equity"
  ELSE IF e.mesaj[1] = "Hicbir varlik girilmemis. Bilanco bos gorunuyor." THEN "empty"
  ELSE "unknown"

\* the position of a check in the list of section 4.3
Rank(kind) ==
  CASE kind = "balance" -> 1
    [] kind = "name" -> 2
    [] kind = "negative" -> 3
    [] kind = "liquidity" -> 4
    [] kind = "equity" -> 5
    [] kind = "empty" -> 6
    [] OTHER -> 0

Kinds(errs) == [i \in 1..Len(errs) |-> Kind(errs[i])]

HasKind(errs, kind) == \E i \in 1..Len(errs) : Kind(errs[i]) = kind

Criticals(errs) == {i \in 1..Len(errs) : errs[i].tip = "kritik"}

AmountKeys(m) == DOMAIN m \ {"isletmeAdi", "bilancoTarihi"}

\* the mapping holds the given amounts and every other amount is 0
OnlyAmounts(m, given) ==
  /\ \A k \in DOMAIN given : k \in DOMAIN m /\ m[k] = Num(given[k])
  /\ \A k \in AmountKeys(m) \ DOMAIN given : m[k] = Num(0)

HasName(m) ==
  "isletmeAdi" \in DOMAIN m /\ m["isletmeAdi"].t = "str"
  /\ \E i \in 1..Len(m["isletmeAdi"].s) : m["isletmeAdi"].s[i] # " "

----------------------------------------------------------------------------
\* Properties of the validation and aggregation engine (SpecEngine).

\* C2: validate returns a Critical finding exactly when the totals differ by
\* more than 0.01 or the equity total is negative; the Critical findings are
\* the balance and the equity finding, every other finding is a Warning; a
\* difference of exactly 0.01 gives no Critical finding.
C2_CriticalIff ==
  op = "validate" =>
    /\ HasKind(errors, "balance") <=> Abs(RefAktif(d) - RefPasif(d)) > 1
    /\ HasKind(errors, "equity") <=> RefOz(d) < 0
    /\ (Criticals(errors) # {})
         <=> (Abs(RefAktif(d) - RefPasif(d)) > 1 \/ RefOz(d) < 0)
    /\ \A i \in 1..Len(errors) :
         /\ Kind(errors[i]) \in {"balance", "equity"} => errors[i].tip = "kritik"
         /\ Kind(errors[i]) \in {"name", "negative", "liquidity", "empty"}
              => errors[i].tip = "uyari"
         /\ Kind(errors[i]) # "unknown"

\* C2 witness: validate has run on a mapping whose totals differ by exactly
\* 0.01 and it returned no Critical finding
C2_Witness ==
  /\ op = "validate"
  /\ Abs(RefAktif(d) - RefPasif(d)) = 1
  /\ Criticals(errors) = {}
  /\ errors # <<>>

\* only numbers that are not negative
NonNegative(m) == \A k \in AmountKeys(m) : m[k].t = "num" /\ m[k].n >= 0

\* C3: for a mapping of non-negative amounts, sum_donen_varliklar plus
\* sum_duran_varliklar is the sum of the entries under the current-asset and
\* fixed-asset keys of the registry minus birikmiAmort, taken once.
C3_AssetsMatchReference ==
  (op = "aggregate" /\ NonNegative(d)) =>
    totals.donen.total + totals.duran.total
      = RefSum(d, DONEN_KEYS) + RefSum(d, DURAN_KEYS) - RefAmount(d, "birikmiAmort")

\* C3 witness: the aggregation has run on non-negative amounts with a
\* fixed asset and an accumulated depreciation
C3_Witness ==
  /\ op = "aggregate"
  /\ NonNegative(d)
  /\ RefAmount(d, "birikmiAmort") > 0
  /\ RefSum(d, DURAN_KEYS) > 0
  /\ totals.duran.total = RefSum(d, DURAN_KEYS) - RefAmount(d, "birikmiAmort")

\* C4: each of the five sum functions returns a total without raising; an
\* absent key and a value that is no number count 0, the others are summed.
C4_SumsTotal ==
  op = "aggregate" =>
    /\ \A f \in DOMAIN totals : ~totals[f].raised
    /\ totals.donen.total = RefDonen(d)
    /\ totals.duran.total = RefDuran(d)
    /\ totals.kv.total = RefSum(d, KV_KEYS)
    /\ totals.uv.total = RefSum(d, UV_KEYS)
    /\ totals.oz.total = RefOz(d)

\* C4 witness: the aggregation has run on a mapping with a malformed value
\* under an equity key and a non-zero amount under a later equity key
C4_Witness ==
  /\ op = "aggregate"
  /\ OZ_KEYS[1] \in DOMAIN d /\ ~float(d[OZ_KEYS[1]]).ok
  /\ OZ_KEYS[2] \in DOMAIN d /\ d[OZ_KEYS[2]] = Num(50000)
  /\ totals.oz = [raised |-> FALSE, total |-> 50000]

\* C5 (as claimed): for kasa = 1000 and odenmisSermaye = 1000, the rest 0,
\* the current-asset total and the equity total are 1000, the sheet
\* balances, and validate gives no Critical and no liquidity finding.
C5_BalancedScenario ==
  (op = "validate" /\ OnlyAmounts(d, [kasa |-> 100000, odenmisSermaye |-> 100000])) =>
    /\ sum_donen_varliklar(d).total = 100000
    /\ sum_oz_kaynaklar(d).total = 100000
    /\ ~HasKind(errors, "balance")
    /\ Criticals(errors) = {}
    /\ ~HasKind(errors, "liquidity")

\* C6 (as claimed): for a mapping whose amounts are all 0 and whose entity
\* name is not empty, validate returns the empty-sheet Warning and nothing
\* else.
C6_OnlyEmptySheetWarning ==
  (op = "validate" /\ OnlyAmounts(d, <<>>) /\ HasName(d)) =>
    Kinds(errors) = <<"empty">>

\* C6 (amended): for a mapping whose amounts are all 0 and whose entity name
\* is not empty, validate returns exactly two findings, both Warnings: the
\* liquidity Warning (ratio 0.00) and then the empty-sheet Warning.
C6_ZeroSheetFindings ==
  (op = "validate" /\ OnlyAmounts(d, <<>>) /\ HasName(d)) =>
    errors =
      << [tip |-> "uyari",
          mesaj |-> <<"Likidite orani dusuk (", "0.00",
                      "). Kisa vadeli borclar donen varliklardan fazla.">>],
         [tip |-> "uyari",
          mesaj |-> <<"Hicbir varlik girilmemis. Bilanco bos gorunuyor.">>] >>

\* C6 witness: validate has run on a named mapping that holds explicit
\* zero amounts only
C6_Witness ==
  /\ op = "validate"
  /\ OnlyAmounts(d, <<>>) /\ HasName(d)
  /\ Cardinality(AmountKeys(d)) >= 2
  /\ Len(errors) = 2

\* C7 (as claimed): for odenmisSermaye = -100, the rest 0, the equity total
\* is -100 and validate returns exactly three findings: the negative line
\* item Warning, the negative equity Critical, the empty-sheet Warning.
C7_ThreeFindings ==
  (op = "validate" /\ OnlyAmounts(d, [odenmisSermaye |-> -10000]) /\ HasName(d)) =>
    /\ sum_oz_kaynaklar(d).total = -10000
    /\ Kinds(errors) = <<"negative", "equity", "empty">>

\* C7 (amended): for odenmisSermaye = -100, the rest 0 and a non-empty entity
\* name, the equity total is -100 and validate returns exactly five
\* findings, in check order: the balance Critical (0,00 against -100,00,
\* difference 100,00), the negative line item Warning, the liquidity Warning
\* (0.00), the negative equity Critical and the empty-sheet Warning.
C7_FiveFindings ==
  (op = "validate" /\ OnlyAmounts(d, [odenmisSermaye |-> -10000]) /\ HasName(d)) =>
    /\ sum_oz_kaynaklar(d).total = -10000
    /\ errors =
         << [tip |-> "kritik",
             mesaj |-> <<"Bilanco dengesizligi: Aktif (", "0,00",
                         " TL) != Pasif (", "-100,00",
                         " TL). Fark: ", "100,00", " TL">>],
            [tip |-> "uyari",
             mesaj |-> <<"odenmisSermaye", " negatif deger iceriyor: ", "-100.0">>],
            [tip |-> "uyari",
             mesaj |-> <<"Likidite orani dusuk (", "0.00",
                         "). Kisa vadeli borclar donen varliklardan fazla.">>],
            [tip |-> "kritik",
             mesaj |-> <<"Oz kaynaklar negatif! Isletme mali sikinti icinde olabilir.">>],
            [tip |-> "uyari",
             mesaj |-> <<"Hicbir varlik girilmemis. Bilanco bos gorunuyor.">>] >>

\* C7 witness: validate has run on the named mapping whose only non-zero
\* amount is odenmisSermaye = -100
C7_Witness ==
  /\ op = "validate"
  /\ OnlyAmounts(d, [odenmisSermaye |-> -10000]) /\ HasName(d)
  /\ Len(errors) = 5

\* C8 (as claimed): for kasa = 1000 and odenmisSermaye = 500, the rest 0,
\* validate finds assets 1000 against liabilities and equity 500 and returns
\* exactly one Critical finding, which reports the difference "500,00".
C8_ImbalanceScenario ==
  (op = "validate" /\ OnlyAmounts(d, [kasa |-> 100000, odenmisSermaye |-> 50000])) =>
    /\ Cardinality(Criticals(errors)) = 1
    /\ \A i \in Criticals(errors) :
         /\ Kind(errors[i]) = "balance"
         /\ errors[i].mesaj[2] = "1.000,00"
         /\ errors[i].mesaj[4] = "500,00"
         /\ errors[i].mesaj[6] = "500,00"

\* C9: the findings validate returns are in check order: balance, entity
\* name, negative line items, liquidity, negative equity, empty sheet.
C9_CheckOrder ==
  op = "validate" =>
    \A i, j \in 1..Len(errors) :
      i < j => /\ Rank(Kind(errors[i])) <= Rank(Kind(errors[j]))
               /\ Rank(Kind(errors[i])) > 0
               /\ (Rank(Kind(errors[i])) = Rank(Kind(errors[j]))
                     => Kind(errors[i]) = "negative")

\* C9 witness: validate has returned findings of all six checks at once
C9_Witness ==
  /\ op = "validate"
  /\ Kinds(errors) = <<"balance", "name", "negative", "liquidity", "equity", "empty">>


----------------------------------------------------------------------------
\* Properties of the spreadsheet writer and reader (SpecExcel).

----------------------------------------------------------------------------
\* Properties of the adapters (Spec).

\* the steps that are a save attempt of an adapter
SaveOps == {"cli_main", "do_save_json", "do_save_excel", "do_save_mongo"}

\* the mapping is critical by its totals: they differ by more than 0.01 or
\* the equity total is negative
RefCritical(m) == Abs(RefAktif(m) - RefPasif(m)) > 1 \/ RefOz(m) < 0

\* C1: a step of an adapter that writes a JSON file, the spreadsheet or the
\* collection is a save attempt whose validation run returned no Critical
\* finding, on entries that are not critical by their totals; so a save
\* attempt whose validation returns a Critical finding leaves the JSON
\* files, the spreadsheet and the collection as they were.
C1_CriticalBlocksPersistence ==
  [][(\/ written' # {}
      \/ json_files' # json_files
      \/ workbook' # workbook
      \/ mongo' # mongo)
     => (/\ op' \in SaveOps
         /\ \A i \in 1..Len(errors') : errors'[i].tip # "kritik"
         /\ ~RefCritical(d'))]_vars

\* a form session that has saved a document and then, after an edit, is
\* refused a save because of a Critical finding
C1_Witness ==
  /\ op \in SaveOps
  /\ status = "mainloop"
  /\ \E i \in 1..Len(errors) : errors[i].tip = "kritik"
  /\ RefCritical(d)
  /\ written = {}
  /\ json_files # <<>>

----------------------------------------------------------------------------
\* Properties of the spreadsheet reader on sheets of any layout (SpecSheet).

\* the rows of the first sheet of the workbook
FirstSheet == workbook[1].rows

\* the sheet has more than two columns and a header row among its first ten
HeaderFound(rows) ==
  /\ MaxColumn(rows) > 2
  /\ FindHeader(rows, 1, IF MaxRow(rows) < 10 THEN MaxRow(rows) ELSE 10) # 0

\* the row r is the last one that holds the cell k in column c
LastWith(rows, r, c, k) ==
  /\ rows[r][c] = k
  /\ \A q \in (r + 1)..Len(rows) : rows[q][c] # k

\* C11: when a header row is found, every data row below it that names a
\* line item in the header's key column is read at the header's positions:
\* the mapping holds the key with the amount of the header's amount column.
C11_HeaderColumnsRead ==
  (op = "load_from_excel" /\ HeaderFound(FirstSheet)) =>
    \A r \in (DetectedColumns(FirstSheet).header_row_idx + 1)..Len(FirstSheet) :
      \A k \in KeySet(LineItemKeys) :
        LastWith(FirstSheet, r, DetectedColumns(FirstSheet).key_col, Str(<<k>>))
          => /\ k \in DOMAIN loaded
             /\ loaded[k] = CellAmount(FirstSheet[r][DetectedColumns(FirstSheet).val_col])

\* the row holds the name of the group and no amount
NamesGroup(row, group) ==
  /\ \E c \in DOMAIN row : row[c] = Str(group)
  /\ \A c \in DOMAIN row : row[c].t # "num"

\* the row holds the label and an amount
HoldsLabel(row, label) ==
  /\ \E c \in DOMAIN row : row[c] = Str(label)
  /\ \E c \in DOMAIN row : row[c].t = "num"

\* the amount cell of a row that has one
AmountCell(row) == row[CHOOSE c \in DOMAIN row : row[c].t = "num"]

\* the rows of the sheet that hold the label
RowsWith(rows, label) == {r \in DOMAIN rows : HoldsLabel(rows[r], label)}

\* the row r names the group and the row below it holds the label
GroupThenLabel(rows, r, group, label) ==
  /\ r + 1 \in DOMAIN rows
  /\ NamesGroup(rows[r], group)
  /\ HoldsLabel(rows[r + 1], label)

\* C12: in a sheet with exactly two rows "Diger Borclar", one below the
\* header row of the short-term liabilities and one below the header row of
\* the long-term liabilities, in either order, the mapping read holds
\* digerBorclarKV with the amount of the first and digerBorclarUV with the
\* amount of the second.
C12_SharedLabelTwoKeys ==
  op = "load_from_excel" =>
    \A i, j \in DOMAIN FirstSheet :
      (/\ GroupThenLabel(FirstSheet, i, KVGroup, DigerBorclar)
       /\ GroupThenLabel(FirstSheet, j, UVGroup, DigerBorclar)
       /\ RowsWith(FirstSheet, DigerBorclar) = {i + 1, j + 1})
      => /\ {"digerBorclarKV", "digerBorclarUV"} \subseteq DOMAIN loaded
         /\ loaded["digerBorclarKV"] = AmountCell(FirstSheet[i + 1])
         /\ loaded["digerBorclarUV"] = AmountCell(FirstSheet[j + 1])

\* C13: every key of the mapping load_from_excel returns is isletmeAdi,
\* bilancoTarihi or a line item of the schema: no subtotal marker and no
\* key outside the schema.
C13_OnlySchemaKeys ==
  op = "load_from_excel" =>
    DOMAIN loaded \subseteq {"isletmeAdi", "bilancoTarihi"} \cup KeySet(LineItemKeys)

\* the schema labels of which a cell of the first sheet is the accent-free
\* spelling
UnaccentedOnSheet ==
  { l \in SpelledLabels :
      \E r \in DOMAIN FirstSheet : \E c \in DOMAIN FirstSheet[r] :
        FirstSheet[r][c] = Str(Unaccent(l)) }

\* C14: _normalize gives the accent-free spelling of a schema label the
\* string it gives the schema's spelling of it, whichever Turkish letters
\* the label holds.
C14_AccentsEquivalent ==
  op = "load_from_excel" =>
    \A l \in UnaccentedOnSheet : Norm(Unaccent(l)) = Norm(l)

\* the row carries the label and an amount and no key cell, in the two
\* columns of the simple layout or in columns 3 and 5 of the detailed one
SimpleLabelRow(row, label) ==
  Len(row) = 2 /\ row[1] = Str(label) /\ row[2].t = "num"
DetailedLabelRow(row, label) ==
  Len(row) = 5 /\ row[3] = Str(label) /\ row[4] = NoneV /\ row[5].t = "num"

\* the rows below the first row of the sheet that carry the label so
KeylessRows(label) ==
  { r \in DOMAIN FirstSheet :
      r > 1 /\ (SimpleLabelRow(FirstSheet[r], label) \/ DetailedLabelRow(FirstSheet[r], label)) }

\* C20: a row without key cell whose label matches only an entry of the alias
\* table is stored under the key of the alias's canonical label, in the
\* simple and in the detailed layout.
C20_AliasResolves ==
  (op = "load_from_excel" /\ KeylessRows(AliasOnlyLabel) # {}) =>
    alias_to_key[Norm(AliasOnlyLabel)] \in DOMAIN loaded

----------------------------------------------------------------------------
\* Properties of the database writer on collections of any content
\* (SpecMongo).

\* the integer identifiers in a collection
IntIds(coll) == {coll[i]["_id"].n : i \in {j \in DOMAIN coll : coll[j]["_id"].t = "int"}}

\* the largest member of a set of integers
Largest(S) == CHOOSE n \in S : \A k \in S : k <= n

\* the collection as it was before the step
StoredBefore == IF written = {"mongo"} THEN SubSeq(mongo, 1, Len(mongo) - 1) ELSE mongo

\* the server answered
ServerUp == \A i \in DOMAIN output : output[i].head # "ServerSelectionTimeoutError"

\* C15: a document without integer identifier is inserted under 1 when the
\* collection holds no integer identifier, else under the largest one plus 1,
\* whatever else the collection holds; the insert is never refused for an
\* identifier already stored.
C15_NextIdentifier ==
  (op = "save_to_mongo" /\ document["_id"].t # "int" /\ ServerUp) =>
    /\ written = {"mongo"}
    /\ mongo[Len(mongo)]["_id"] =
         IntV(IF IntIds(StoredBefore) = {} THEN 1 ELSE Largest(IntIds(StoredBefore)) + 1)

----------------------------------------------------------------------------
\* Properties of the document builder (SpecDocument).

\* the text of c hundredths with the sign neg: the whole part, a point and
\* two digits
TwoPlaces(neg, c) ==
  Join((IF neg THEN <<"-">> ELSE <<>>) \o NatDigits(c \div Scale) \o <<".">>
       \o <<DigitChars[((c % Scale) \div 10) + 1], DigitChars[(c % 10) + 1]>>)

\* text is a text of two decimal places of the quotient num / den: of one of
\* the two hundredths next to it
TwoPlacesOf(text, num, den) ==
  \E neg \in BOOLEAN :
    \E c \in {(Abs(num) * Scale) \div Abs(den), ((Abs(num) * Scale) \div Abs(den)) + 1} :
      text = TwoPlaces(neg, c)

RefKv(m) == RefSum(m, KV_KEYS)
RefUv(m) == RefSum(m, UV_KEYS)

\* C16: build_mongo_like_document gives a document for every mapping; the
\* equity and the debt ratio are "0.00" when the asset total is 0, the
\* liquidity ratio is the current-asset total divided by 1 when the
\* short-term total is 0, and all three ratios are texts of two decimal
\* places.
C16_RatiosDefined ==
  op = "build_mongo_like_document" =>
    /\ RefAktif(d) = 0 =>
         /\ document.rasyolar.ozkaynaklarOrani = "0.00"
         /\ document.rasyolar.borcOrani = "0.00"
    /\ RefAktif(d) # 0 =>
         /\ TwoPlacesOf(document.rasyolar.ozkaynaklarOrani, RefOz(d) * 100, RefAktif(d))
         /\ TwoPlacesOf(document.rasyolar.borcOrani, (RefKv(d) + RefUv(d)) * 100,
                        RefAktif(d))
    /\ RefKv(d) = 0 =>
         document.rasyolar.likiditeOrani = TwoPlaces(RefDonen(d) < 0, Abs(RefDonen(d)))
    /\ RefKv(d) # 0 =>
         TwoPlacesOf(document.rasyolar.likiditeOrani, RefDonen(d), RefKv(d))

\* a mapping whose assets cancel out to 0, without short-term liabilities,
\* and its document
C16_Witness ==
  /\ op = "build_mongo_like_document"
  /\ RefAktif(d) = 0 /\ RefKv(d) = 0 /\ RefDonen(d) > 0
  /\ document.rasyolar.ozkaynaklarOrani = "0.00"
  /\ document.rasyolar.likiditeOrani = TwoPlaces(FALSE, RefDonen(d))

\* C19: dogrulama.durumu of the document is 'uyarilarla' exactly when the
\* list of findings passed in is not empty and 'basarili' exactly when it is
\* empty, whatever the severities of the findings; dogrulama.hatalar is the
\* list passed in.
C19_StatusFromFindings ==
  op = "build_mongo_like_document" =>
    /\ document.dogrulama.durumu = "uyarilarla" <=> errors # <<>>
    /\ document.dogrulama.durumu = "basarili" <=> errors = <<>>
    /\ document.dogrulama.hatalar = errors

\* a document built from a list that holds a critical finding only
C19_Witness ==
  /\ op = "build_mongo_like_document"
  /\ errors # <<>>
  /\ \A i \in DOMAIN errors : errors[i].tip = "kritik"
  /\ document.dogrulama.durumu = "uyarilarla"

----------------------------------------------------------------------------
\* Properties of the adapters about failing stores (Spec).

\* how often the step made the call
Count(seq, call) == Cardinality({i \in DOMAIN seq : seq[i] = call})

\* the step showed or printed an error under the heading or with the first
\* piece of text
ErrorShown(head, text) ==
  \E i \in DOMAIN output :
    \/ output[i].via = "messagebox.showerror" /\ output[i].head = head
    \/ output[i].via = "print" /\ output[i].text[1] = text

\* C17: a store that fails is reported as an error of that save and is not
\* tried again: a step makes at most one insert and one write of each file,
\* a failed attempt stores nothing and shows the error (or ends the console
\* run with the exception), and every database client opened is closed,
\* after a success and after a failure.
C17_FailureSurfacedOnce ==
  /\ Count(calls, "insert_one") <= 1
  /\ Count(calls, "open") <= 1
  /\ Count(calls, "wb.save") <= 1
  /\ Count(calls, "close") = Count(calls, "MongoClient")
  /\ \A i \in DOMAIN calls :
       calls[i] = "MongoClient" => \E j \in DOMAIN calls : j > i /\ calls[j] = "close"
  /\ (Count(calls, "insert_one") = 1 /\ "mongo" \notin written) =>
       ErrorShown("MongoDB Hatasi", "MongoDB kaydetme hatasi: ")
  /\ (Count(calls, "open") = 1 /\ "json" \notin written) =>
       (ErrorShown("Kayit Hatasi", "") \/ status = "raised")
  /\ (Count(calls, "wb.save") = 1 /\ "excel" \notin written) =>
       ErrorShown("Excel", "")

\* the database button pressed while the server does not answer: one
\* insert, the client closed, the error shown, nothing stored
C17_Witness ==
  /\ op = "do_save_mongo"
  /\ calls = <<"MongoClient", "find", "insert_one", "close">>
  /\ written = {}
  /\ mongo = <<>>
  /\ ErrorShown("MongoDB Hatasi", "")

----------------------------------------------------------------------------
\* Properties of validate called twice (SpecRepeat).

----------------------------------------------------------------------------
\* Properties of the negative-value check (SpecEngine).

\* the findings of the list that warn of a negative value under the key
NegativeWarnings(errs, key) ==
  {i \in DOMAIN errs : Kind(errs[i]) = "negative" /\ errs[i].mesaj[1] = key}

\* the entry holds a number below 0 and is none of the three entries the
\* check leaves out
WarnedEntry(m, key) ==
  /\ key \in DOMAIN m
  /\ key \notin {"isletmeAdi", "bilancoTarihi", "birikmiAmort"}
  /\ RefAmount(m, key) < 0

\* C21: validate returns one negative-value Warning, naming the key and the
\* value, for every entry that holds a number below 0 other than isletmeAdi,
\* bilancoTarihi and birikmiAmort, and none for any other entry: not for a
\* negative birikmiAmort, not for a value that is 0 or above or no number.
C21_NegativeWarnings ==
  op = "validate" =>
    /\ \A i \in DOMAIN errors :
         Kind(errors[i]) = "negative" =>
           /\ errors[i].tip = "uyari"
           /\ WarnedEntry(d, errors[i].mesaj[1])
           /\ errors[i].mesaj[3] = Join(float_repr(d[errors[i].mesaj[1]].n))
    /\ \A key \in DOMAIN d :
         Cardinality(NegativeWarnings(errors, key)) = IF WarnedEntry(d, key) THEN 1 ELSE 0

\* a negative birikmiAmort beside a negative amount: one warning, for the
\* amount, with the value as the float prints
C21_Witness ==
  /\ op = "validate"
  /\ "birikmiAmort" \in DOMAIN d /\ d["birikmiAmort"] = Num(-10000)
  /\ \E key \in DOMAIN d \ {"birikmiAmort"} :
       /\ d[key] = Num(-10000)
       /\ \E i \in NegativeWarnings(errors, key) : errors[i].mesaj[3] = "-100.0"
  /\ NegativeWarnings(errors, "birikmiAmort") = {}

----------------------------------------------------------------------------
\* Properties of the console entry (Spec).

\* the amounts the five sums read: the section key lists and birikmiAmort
SummedKeys == KeySet(LineItemKeys) \cup {"birikmiAmort"}

\* C23: every amount the console run collects is stored under a key of one
\* of the five section key lists or under birikmiAmort, so that it counts in
\* a section total of validate.
C23_ConsoleKeysSummed ==
  op = "cli_main" => AmountKeys(d) \subseteq SummedKeys

----------------------------------------------------------------------------
\* Properties of the totals of the document (SpecDocument).

\* what a value of the document counts for: the number it holds, else 0
ItemAmount(v) == IF float(v).ok THEN float(v).n ELSE 0

RECURSIVE ItemsSum(_, _)
\* the sum of the line items of a section of the document listed under K
ItemsSum(section, K) ==
  IF K = {} THEN 0
  ELSE LET k == CHOOSE x \in K : TRUE
       IN ItemAmount(section[k]) + ItemsSum(section, K \ {k})

\* the total of the section is the sum of the line items it lists, those
\* of minus subtracted
SectionAddsUp(section, minus) ==
  section.toplam =
    Num(ItemsSum(section, DOMAIN section \ ({"toplam"} \cup minus))
        - ItemsSum(section, DOMAIN section \cap minus))

\* the totals of the two sides are the sums of the totals of their sections
SidesAddUp(doc) ==
  /\ doc.aktif.toplam.n =
       doc.aktif.donenVarliklar.toplam.n + doc.aktif.duranVarliklar.toplam.n
  /\ doc.pasif.toplam.n =
       doc.pasif.kisaVadeliYabanciKaynaklar.toplam.n
       + doc.pasif.uzunVadeliYabanciKaynaklar.toplam.n
       + doc.pasif.ozKaynaklar.toplam.n

\* C24: in the document every section's 'toplam' is the sum of the line
\* items the document lists in that section (for duranVarliklar with
\* birikmiAmort subtracted), and the total of each side is the sum of the
\* totals of its sections.
C24_DocumentTotalsAddUp ==
  op = "build_mongo_like_document" =>
    /\ SectionAddsUp(document.aktif.donenVarliklar, {})
    /\ SectionAddsUp(document.aktif.duranVarliklar, {"birikmiAmort"})
    /\ SectionAddsUp(document.pasif.kisaVadeliYabanciKaynaklar, {})
    /\ SectionAddsUp(document.pasif.uzunVadeliYabanciKaynaklar, {})
    /\ SectionAddsUp(document.pasif.ozKaynaklar, {})
    /\ SidesAddUp(document)

----------------------------------------------------------------------------
\* Properties of the form session that loads from the database
\* (SpecOpenMongo).

\* the text typed into the dialog that asks for an _id, when it was shown
EnteredId ==
  {output[i].text : i \in {j \in DOMAIN output : output[j].via = "simpledialog.askstring"}}

\* the documents stored under an integer identifier of which the text typed
\* is the decimal spelling
StoredUnder(entered) ==
  {mongo[i] : i \in {j \in DOMAIN mongo :
                       /\ mongo[j]["_id"].t = "int"
                       /\ Strip(entered) = NatDigits(mongo[j]["_id"].n)}}

\* the step showed no error box: the server answered
NoErrorBox == \A i \in DOMAIN output : output[i].via # "messagebox.showerror"

\* C22: a document saved to the database under the integer identifier n is
\* found when n is typed into the dialog of do_open_mongo that asks for an
\* _id, and is the document loaded into the form.
C22_LoadByIdentifier ==
  (op = "do_open_mongo" /\ NoErrorBox) =>
    \A entered \in EnteredId :
      StoredUnder(entered) # {} => document \in StoredUnder(entered)

----------------------------------------------------------------------------
\* Properties of the form session that loads from a JSON file (SpecJson).

\* every amount field of the form reads as 0
ZeroForm(vm) ==
  \A k \in DOMAIN vm \ {"isletmeAdi", "bilancoTarihi"} : parse_float(vm[k]) = 0

\* the five section totals of the fields equal the five section totals the
\* document was saved with
TotalsRestored(vm, doc) ==
  /\ RefDonen(gui_collect_data(vm)) = doc.aktif.donenVarliklar.toplam.n
  /\ RefDuran(gui_collect_data(vm)) = doc.aktif.duranVarliklar.toplam.n
  /\ RefKv(gui_collect_data(vm)) = doc.pasif.kisaVadeliYabanciKaynaklar.toplam.n
  /\ RefUv(gui_collect_data(vm)) = doc.pasif.uzunVadeliYabanciKaynaklar.toplam.n
  /\ RefOz(gui_collect_data(vm)) = doc.pasif.ozKaynaklar.toplam.n

\* C25: a file written by do_save_json and loaded by do_open_json into a
\* form whose amount fields are all 0 gives every amount field of the form
\* the value it had when the file was saved: the section totals of the
\* fields are then those of the document in the file.
C25_JsonRoundTrip ==
  [][(op' = "do_open_json" /\ document' # NoDocument /\ ZeroForm(vars_map))
       => TotalsRestored(vars_map', document')]_vars

----------------------------------------------------------------------------
\* Properties of the form session that loads from a spreadsheet
\* (SpecOpenExcel).

\* the two total labels show the totals of the mapping read off the fields
TotalsShown ==
  status = "mainloop" =>
    /\ display.aktif_top_val = <<format_tl(RefAktif(gui_collect_data(vars_map))), " TL">>
    /\ display.pasif_top_val = <<format_tl(RefPasif(gui_collect_data(vars_map))), " TL">>

\* the step do_open_excel changes the fields whose keys the mapping read from
\* the file holds, to the values it holds, and no other field
OnlyLoadedFieldsChange ==
  op' = "do_open_excel" =>
    /\ DOMAIN vars_map' = DOMAIN vars_map
    /\ \A k \in DOMAIN vars_map :
         IF vars_map'[k] # vars_map[k]
         THEN k \in DOMAIN loaded' /\ parse_float(vars_map'[k]) = RefAmount(loaded', k)
         ELSE TRUE

\* C26: do_open_excel overwrites only the fields whose keys are in the
\* mapping read from the file and leaves every other field as it was, and
\* after every edit and load the two totals displayed are the totals of the
\* current fields.
C26_LoadKeepsOtherFields ==
  [](TotalsShown) /\ [][OnlyLoadedFieldsChange]_vars

\* a file with one row loaded over an edited form: the field of the row is
\* overwritten, the edited field of another key is kept
C26_Witness ==
  /\ op = "do_open_excel"
  /\ DOMAIN loaded = {DONEN_KEYS[1]}
  /\ vars_map[DONEN_KEYS[1]] = <<"3", ".", "0">>
  /\ vars_map["odenmisSermaye"] = <<"1", "0", "0", "0">>

============================================================================
